---- MODULE Spec2Model ----
(***************************************************************************)
(* A model of bicep-whatif-advisor's extraction / gating core:              *)
(*   - evaluate_risk_buckets (whatif_explain/ci/risk_buckets.py), the       *)
(*     three-bucket deployment gate,                                        *)
(*   - extract_json (bicep_whatif_advisor/cli.py), the verbatim parse       *)
(*     followed by the string- and escape-aware brace scan, together with   *)
(*     the regex variant of whatif_explain/cli.py,                          *)
(*   - the normalization step of main and filter_by_confidence              *)
(*     (bicep_whatif_advisor/cli.py), applied to a parsed response,         *)
(*   - main (bicep_whatif_advisor/cli.py) from the model call to the exit   *)
(*     of the process,                                                      *)
(*   - complete() of the three providers (bicep_whatif_advisor/providers),  *)
(*     the API call with its single retry.                                  *)
(* Python values are tagged records [t |-> tag, v |-> payload]; a dict is   *)
(* a record over the keys the code reads, a key that is not in the dict     *)
(* holding Absent.  An exception is the result [kind |-> "raise"].          *)
(***************************************************************************)
EXTENDS Integers, Sequences, FiniteSets, TLC

VARIABLES
    \* ---- evaluate_risk_buckets ----
    data,                   \* the parsed response handed to the gate
    drift_threshold,
    intent_threshold,
    operations_threshold,
    gate_pc,                \* "idle" | "start" | "evaluated"
    gate_result,            \* result of the last call of evaluate_risk_buckets
    gate_prev,              \* result of the call before a threshold was raised
    raised_bucket,          \* the bucket whose threshold was raised last
    \* ---- extract_json ----
    text,                   \* the raw LLM response, a sequence of characters
    origin,                 \* how the text was built (raw, or prefix+object+suffix)
    pc,                     \* "idle" | "verbatim" | "find" | "scan" | "done"
    start,                  \* text.find('{'), 1-based; 0 when not found
    i,                      \* loop index of the brace scan, 1-based
    brace_count,
    in_string,
    escape_next,
    candidates,             \* the substrings handed to json.loads by the scan
    outcome,                \* what extract_json returned or raised
    legacy,                 \* outcome of the regex variant of extract_json
    \* ---- normalization and filter_by_confidence ----
    raw,                    \* the value returned by extract_json
    resp_pc,                \* "idle" | "start" | "normalized" | "renormalized" | "partitioned"
    normalized,             \* outcome of the normalization step on raw
    renormalized,           \* outcome of the normalization step on its own result
    partition_input,        \* the value handed to filter_by_confidence
    partition,              \* outcome of filter_by_confidence
    \* ---- main ----
    ci,                     \* CI mode, after platform auto-detection
    no_block,               \* the --no-block option
    main_pc,                \* "idle" | "call" | "await" | "normalize" | "partition" |
                            \* "feedback" | "await_feedback" | "render" | "gate" |
                            \* "exited"
    llm_calls,              \* calls of llm_provider.complete made so far
    in_flight,              \* calls of llm_provider.complete that have not returned
    response_text,          \* the first reply, kept when extract_json rejects it
    truncated,              \* the preview of the first reply written to sys.stderr
    response,               \* what extract_json made of the first reply
    main_data,              \* data
    high_confidence_data,
    low_confidence_data,
    high_before,            \* high_confidence_data as filter_by_confidence returned it
    low_before,             \* low_confidence_data as filter_by_confidence returned it
    filtered_response,      \* what extract_json made of the second reply
    filtered_whatif,        \* the entries of filtered_whatif_lines
    rendered,               \* the view handed to the renderer, None before
    stderr,                 \* the messages written to sys.stderr
    exit_code,              \* the status of sys.exit, -1 while the run goes on
    \* ---- providers: complete() ----
    provider,               \* "anthropic" | "azure-openai" | "ollama"; "none" when idle
    prov_pc,                \* "idle" | "import" | "attempt" | "sleep" | "returned" | "exited"
    attempt,                \* the loop variable of "for attempt in range(2)"
    api_attempts,           \* API calls made so far
    raised,                 \* the exceptions the API calls raised, in order
    prov_text,              \* the text complete() returned
    prov_status             \* the status of sys.exit in complete(), -1 before

gate_vars == <<data, drift_threshold, intent_threshold, operations_threshold,
               gate_pc, gate_result, gate_prev, raised_bucket>>
extract_vars == <<text, origin, pc, start, i, brace_count, in_string,
                  escape_next, candidates, outcome, legacy>>
resp_vars == <<raw, resp_pc, normalized, renormalized, partition_input, partition>>
option_vars == <<no_block>>
output_vars == <<response_text, truncated, rendered>>
main_vars == <<ci, main_pc, llm_calls, in_flight, response, main_data,
               high_confidence_data, low_confidence_data, high_before, low_before,
               filtered_response, filtered_whatif, stderr, exit_code,
               option_vars, output_vars>>
provider_vars == <<provider, prov_pc, attempt, api_attempts, raised, prov_text,
                   prov_status>>
pipeline_vars == <<resp_vars, main_vars, provider_vars>>
vars == <<gate_vars, extract_vars, pipeline_vars>>

-----------------------------------------------------------------------------
(* Python values *)

Absent == [t |-> "absent"]
JNull == [t |-> "null"]
JStr(s) == [t |-> "str", v |-> s]
JNum(n) == [t |-> "num", v |-> n]
JBool(b) == [t |-> "bool", v |-> b]
JList(l) == [t |-> "list", v |-> l]
JDict(d) == [t |-> "dict", v |-> d]

Raise(e) == [kind |-> "raise", exc |-> e]
Return(x) == [kind |-> "return", val |-> x]
NoResult == [kind |-> "none"]

\* bool(x) of a Python value
Truthy(x) ==
    CASE x.t = "null" -> FALSE
      [] x.t = "str" -> x.v # ""
      [] x.t = "num" -> x.v # 0
      [] x.t = "bool" -> x.v
      [] x.t = "list" -> x.v # <<>>
      [] x.t = "dict" -> \E k \in DOMAIN x.v : x.v[k] # Absent
      [] OTHER -> FALSE

\* k in d
HasKey(d, k) == d.v[k] # Absent

\* d.get(k, default) of a dict d
DictGet(d, k, default) == IF HasKey(d, k) THEN d.v[k] ELSE default

\* str.lower() on the strings of the model
Lower(s) ==
    CASE s = "LOW" -> "low"
      [] s = "Low" -> "low"
      [] s = "MEDIUM" -> "medium"
      [] s = "Medium" -> "medium"
      [] s = "HIGH" -> "high"
      [] s = "High" -> "high"
      [] s = "Critical" -> "critical"
      [] s = "NOISE" -> "noise"
      [] s = "Noise" -> "noise"
      [] s = "Create" -> "create"
      [] s = "Modify" -> "modify"
      [] s = "Delete" -> "delete"
      [] s = "Deploy" -> "deploy"
      [] s = "NoChange" -> "nochange"
      [] s = "Ignore" -> "ignore"
      [] OTHER -> s

\* list.index(x): the 1-based position of the first x, 0 when x is not in the list
Index(seq, x) ==
    IF \E n \in 1..Len(seq) : seq[n] = x
    THEN CHOOSE n \in 1..Len(seq) : seq[n] = x /\ \A m \in 1..(n - 1) : seq[m] # x
    ELSE 0

-----------------------------------------------------------------------------
(* whatif_explain/ci/risk_buckets.py *)

RISK_LEVELS == <<"low", "medium", "high">>

EmptyBucket == JDict([risk_level |-> Absent, concerns |-> Absent, reasoning |-> Absent])

Bucket(level) == JDict([risk_level |-> level, concerns |-> Absent, reasoning |-> Absent])

Assessment(d, n, o, x) == JDict([drift |-> d, intent |-> n, operations |-> o, other |-> x])

Response(ra) == JDict([risk_assessment |-> ra, verdict |-> Absent])

_validate_risk_level_high(risk_level) ==
    IF risk_level.t # "str" THEN Raise("AttributeError")
    ELSE LET risk == Lower(risk_level.v)
         IN Return(IF Index(RISK_LEVELS, risk) # 0 THEN risk ELSE "high")

_validate_risk_level(risk_level) ==
    IF risk_level.t # "str" THEN Raise("AttributeError")
    ELSE LET risk == Lower(risk_level.v)
         IN Return(IF Index(RISK_LEVELS, risk) # 0 THEN risk ELSE "low")

_exceeds_threshold_strict(risk_level, threshold) ==
    LET risk_index == Index(RISK_LEVELS, Lower(risk_level))
        threshold_index == Index(RISK_LEVELS, Lower(threshold))
    IN IF risk_index = 0 \/ threshold_index = 0 THEN Raise("ValueError")
       ELSE Return(risk_index > threshold_index)

_exceeds_threshold_below(risk_level, threshold) ==
    LET risk_index == Index(RISK_LEVELS, Lower(risk_level))
        threshold_index == Index(RISK_LEVELS, Lower(threshold))
    IN IF risk_index = 0 \/ threshold_index = 0 THEN Raise("ValueError")
       ELSE Return(risk_index <= threshold_index)

_exceeds_threshold(risk_level, threshold) ==
    LET risk_index == Index(RISK_LEVELS, Lower(risk_level))
        threshold_index == Index(RISK_LEVELS, Lower(threshold))
    IN IF risk_index = 0 \/ threshold_index = 0 THEN Raise("ValueError")
       ELSE Return(risk_index >= threshold_index)

\* _validate_risk_level(bucket.get("risk_level", "low")), lines 54, 55 and 66
BucketRisk(bucket) ==
    IF bucket.t # "dict" THEN Raise("AttributeError")
    ELSE _validate_risk_level(DictGet(bucket, "risk_level", JStr("low")))

\* a synthesized bucket at level medium
SynthBucketMedium ==
    JDict([risk_level |-> JStr("medium"), concerns |-> JList(<<>>),
           reasoning |-> JStr("No risk assessment provided")])

\* the assessment returned when the response carries no (truthy) risk_assessment
SynthBucket ==
    JDict([risk_level |-> JStr("low"), concerns |-> JList(<<>>),
           reasoning |-> JStr("No risk assessment provided")])

SynthAssessmentWithIntent == Assessment(SynthBucket, SynthBucket, SynthBucket, Absent)

SynthAssessment == Assessment(SynthBucket, Absent, SynthBucket, Absent)

\* risk_assessment.get("intent"): None when the key is missing
IntentBucketDefaulted(risk_assessment) == DictGet(risk_assessment, "intent", EmptyBucket)

IntentBucket(risk_assessment) == DictGet(risk_assessment, "intent", JNull)

IsSafeAtMostOne(failed_buckets) == Len(failed_buckets) <= 1

IsSafe(failed_buckets) == Len(failed_buckets) = 0

\* lines 48-77: the body of evaluate_risk_buckets once risk_assessment is truthy
EvaluateBuckets(risk_assessment, drift_th, intent_th, operations_th) ==
    IF risk_assessment.t # "dict" THEN Raise("AttributeError")
    ELSE
    LET drift_bucket == DictGet(risk_assessment, "drift", EmptyBucket)
        intent_bucket == IntentBucket(risk_assessment)
        operations_bucket == DictGet(risk_assessment, "operations", EmptyBucket)
        drift_risk == BucketRisk(drift_bucket)
        operations_risk == BucketRisk(operations_bucket)
    IN
    IF drift_risk.kind = "raise" THEN drift_risk
    ELSE IF operations_risk.kind = "raise" THEN operations_risk
    ELSE
    LET drift_fails == _exceeds_threshold(drift_risk.val, drift_th)
    IN
    IF drift_fails.kind = "raise" THEN drift_fails
    ELSE
    LET failed1 == IF drift_fails.val THEN <<"drift">> ELSE <<>>
        intent_risk == BucketRisk(intent_bucket)
        intent_fails ==
            IF intent_bucket = JNull THEN Return(FALSE)
            ELSE IF intent_risk.kind = "raise" THEN intent_risk
            ELSE _exceeds_threshold(intent_risk.val, intent_th)
    IN
    IF intent_fails.kind = "raise" THEN intent_fails
    ELSE
    LET failed2 == IF intent_fails.val THEN Append(failed1, "intent") ELSE failed1
        operations_fails == _exceeds_threshold(operations_risk.val, operations_th)
    IN
    IF operations_fails.kind = "raise" THEN operations_fails
    ELSE
    LET failed_buckets ==
            IF operations_fails.val THEN Append(failed2, "operations") ELSE failed2
    IN Return([safe |-> IsSafe(failed_buckets),
               failed |-> failed_buckets,
               assessment |-> risk_assessment])

\* a gate in which a verdict with safe = false overrules the buckets
evaluate_risk_buckets_verdict(d, drift_th, intent_th, operations_th) ==
    LET risk_assessment == DictGet(d, "risk_assessment", Assessment(Absent, Absent, Absent, Absent))
        verdict == DictGet(d, "verdict", JNull)
        result == IF ~Truthy(risk_assessment)
                  THEN Return([safe |-> TRUE, failed |-> <<>>, assessment |-> SynthAssessment])
                  ELSE EvaluateBuckets(risk_assessment, drift_th, intent_th, operations_th)
    IN IF result.kind = "return" /\ verdict.t = "dict" /\ verdict.v.safe = JBool(FALSE)
       THEN Return([result.val EXCEPT !.safe = FALSE])
       ELSE result

evaluate_risk_buckets(d, drift_th, intent_th, operations_th) ==
    LET risk_assessment == DictGet(d, "risk_assessment", Assessment(Absent, Absent, Absent, Absent))
    IN IF ~Truthy(risk_assessment)
       THEN Return([safe |-> TRUE, failed |-> <<>>, assessment |-> SynthAssessment])
       ELSE EvaluateBuckets(risk_assessment, drift_th, intent_th, operations_th)

-----------------------------------------------------------------------------
(* inputs of the gate *)

LevelStrings == {"low", "medium", "high", "HIGH", "critical", ""}

RiskLevelValues == {Absent, JNull, JNum(3)} \cup {JStr(s) : s \in LevelStrings}

BucketValues == {Absent, JNull, JStr("high")} \cup {Bucket(l) : l \in RiskLevelValues}

RiskAssessmentValues ==
    {Absent, JNull, JStr("n/a"), Assessment(Absent, Absent, Absent, JNull)}
    \cup {Assessment(d, n, o, Absent) : d \in BucketValues, n \in BucketValues, o \in BucketValues}

\* click.Choice(["low", "medium", "high"], case_sensitive=False)
ThresholdValues == {"low", "medium", "high", "HIGH"}

BucketNames == <<"drift", "intent", "operations">>

ExtractIdle ==
    /\ text = <<>>
    /\ origin = [kind |-> "none"]
    /\ pc = "idle"
    /\ start = 0
    /\ i = 0
    /\ brace_count = 0
    /\ in_string = FALSE
    /\ escape_next = FALSE
    /\ candidates = <<>>
    /\ outcome = NoResult
    /\ legacy = NoResult

ResponseIdle ==
    /\ raw = JNull
    /\ resp_pc = "idle"
    /\ normalized = NoResult
    /\ renormalized = NoResult
    /\ partition_input = JNull
    /\ partition = NoResult

MainIdle ==
    /\ ci = FALSE
    /\ no_block = FALSE
    /\ response_text = <<>>
    /\ truncated = <<>>
    /\ rendered = JNull
    /\ main_pc = "idle"
    /\ llm_calls = 0
    /\ in_flight = 0
    /\ response = NoResult
    /\ main_data = JNull
    /\ high_confidence_data = JNull
    /\ low_confidence_data = JNull
    /\ high_before = JNull
    /\ low_before = JNull
    /\ filtered_response = NoResult
    /\ filtered_whatif = <<>>
    /\ stderr = <<>>
    /\ exit_code = -1

ProviderIdle ==
    /\ provider = "none"
    /\ prov_pc = "idle"
    /\ attempt = 0
    /\ api_attempts = 0
    /\ raised = <<>>
    /\ prov_text = NoResult
    /\ prov_status = -1

PipelineIdle == ResponseIdle /\ MainIdle /\ ProviderIdle

GateInit ==
    /\ data \in {Response(ra) : ra \in RiskAssessmentValues}
    /\ drift_threshold \in ThresholdValues
    /\ intent_threshold \in ThresholdValues
    /\ operations_threshold \in ThresholdValues
    /\ gate_pc = "start"
    /\ gate_result = NoResult
    /\ gate_prev = NoResult
    /\ raised_bucket = "none"
    /\ ExtractIdle
    /\ PipelineIdle

\* main, lines 492-494: the gate is called with the thresholds of the command line
Evaluate ==
    /\ gate_pc = "start"
    /\ gate_result' = evaluate_risk_buckets(data, drift_threshold,
                                            intent_threshold, operations_threshold)
    /\ gate_pc' = "evaluated"
    /\ UNCHANGED <<data, drift_threshold, intent_threshold, operations_threshold,
                   gate_prev, raised_bucket>>
    /\ UNCHANGED extract_vars
    /\ UNCHANGED pipeline_vars

NextLevel(th) ==
    CASE Lower(th) = "low" -> "medium"
      [] Lower(th) = "medium" -> "high"
      [] OTHER -> th

\* the same response is gated again with the threshold of one bucket raised a level
RaiseThreshold(b) ==
    /\ gate_pc = "evaluated"
    /\ LET dt == IF b = "drift" THEN NextLevel(drift_threshold) ELSE drift_threshold
           nt == IF b = "intent" THEN NextLevel(intent_threshold) ELSE intent_threshold
           ot == IF b = "operations" THEN NextLevel(operations_threshold)
                 ELSE operations_threshold
       IN /\ <<dt, nt, ot>> # <<drift_threshold, intent_threshold, operations_threshold>>
          /\ drift_threshold' = dt
          /\ intent_threshold' = nt
          /\ operations_threshold' = ot
          /\ gate_prev' = gate_result
          /\ gate_result' = evaluate_risk_buckets(data, dt, nt, ot)
    /\ raised_bucket' = b
    /\ UNCHANGED <<data, gate_pc>>
    /\ UNCHANGED extract_vars
    /\ UNCHANGED pipeline_vars

GateNext ==
    \/ Evaluate
    \/ \E b \in {"drift", "intent", "operations"} : RaiseThreshold(b)

SpecGate == GateInit /\ [][GateNext]_vars

-----------------------------------------------------------------------------
(* json.loads, as called by extract_json.  The characters of the model are   *)
(* the structural characters of JSON, the double quote, the backslash, the   *)
(* space, the digit 1 and the letter a; a parsed value is a tagged record.   *)

PNone == [t |-> "none"]
PStr(chars) == [t |-> "string", v |-> chars]
PNum(n) == [t |-> "number", v |-> n]
PArr(elems) == [t |-> "array", v |-> elems]
PObj(pairs) == [t |-> "object", v |-> pairs]

\* a JSONDecodeError
Fail == [ok |-> FALSE, val |-> PNone, end |-> 0]
Ok(value, next) == [ok |-> TRUE, val |-> value, end |-> next]

Whitespace == {" "}
Digits == {"1"}
\* the escapes \" \\ \/ of the string scanner (\b \f \n \r \t \u are outside the alphabet)
EscapeChars == {"\"", "\\", "/"}

\* dict construction from the (key, value) pairs: a repeated key keeps the last value
DictPut(pairs, key, value) == {p \in pairs : p[1] # key} \cup {<<key, value>>}

RECURSIVE SkipWs(_, _)
SkipWs(s, n) == IF n <= Len(s) /\ s[n] \in Whitespace THEN SkipWs(s, n + 1) ELSE n

\* scanstring: n is the position after the opening quote
RECURSIVE ScanString(_, _, _)
ScanString(s, n, acc) ==
    IF n > Len(s) THEN Fail
    ELSE IF s[n] = "\"" THEN Ok(PStr(acc), n + 1)
    ELSE IF s[n] = "\\"
         THEN IF n + 1 <= Len(s) /\ s[n + 1] \in EscapeChars
              THEN ScanString(s, n + 2, Append(acc, s[n + 1]))
              ELSE Fail
    ELSE ScanString(s, n + 1, Append(acc, s[n]))

\* the integer part of NUMBER_RE: a run of digits starting with 1-9
RECURSIVE ScanNumber(_, _, _)
ScanNumber(s, n, acc) ==
    IF n <= Len(s) /\ s[n] \in Digits
    THEN ScanNumber(s, n + 1, acc * 10 + 1)
    ELSE Ok(PNum(acc), n)

RECURSIVE ScanOnce(_, _)
RECURSIVE ParseMembers(_, _, _)
RECURSIVE ParseElements(_, _, _)

\* JSONObject: n is the position after the opening brace
ParseObject(s, n) ==
    LET m == SkipWs(s, n)
    IN IF m > Len(s) THEN Fail
       ELSE IF s[m] = "}" THEN Ok(PObj({}), m + 1)
       ELSE IF s[m] # "\"" THEN Fail
       ELSE ParseMembers(s, m + 1, {})

\* the member loop of JSONObject: n is the position after the key's opening quote
ParseMembers(s, n, acc) ==
    LET key == ScanString(s, n, <<>>)
    IN IF ~key.ok THEN Fail
       ELSE
       LET c == SkipWs(s, key.end)
       IN IF c > Len(s) \/ s[c] # ":" THEN Fail
          ELSE
          LET value == ScanOnce(s, SkipWs(s, c + 1))
          IN IF ~value.ok THEN Fail
             ELSE
             LET acc2 == DictPut(acc, key.val.v, value.val)
                 d == SkipWs(s, value.end)
             IN IF d > Len(s) THEN Fail
                ELSE IF s[d] = "}" THEN Ok(PObj(acc2), d + 1)
                ELSE IF s[d] # "," THEN Fail
                ELSE LET k == SkipWs(s, d + 1)
                     IN IF k > Len(s) \/ s[k] # "\"" THEN Fail
                        ELSE ParseMembers(s, k + 1, acc2)

\* JSONArray: n is the position after the opening bracket
ParseArray(s, n) ==
    LET m == SkipWs(s, n)
    IN IF m > Len(s) THEN Fail
       ELSE IF s[m] = "]" THEN Ok(PArr(<<>>), m + 1)
       ELSE ParseElements(s, m, <<>>)

ParseElements(s, n, acc) ==
    LET value == ScanOnce(s, n)
    IN IF ~value.ok THEN Fail
       ELSE
       LET d == SkipWs(s, value.end)
       IN IF d > Len(s) THEN Fail
          ELSE IF s[d] = "]" THEN Ok(PArr(Append(acc, value.val)), d + 1)
          ELSE IF s[d] # "," THEN Fail
          ELSE ParseElements(s, SkipWs(s, d + 1), Append(acc, value.val))

\* scan_once: the value starting at position n
ScanOnce(s, n) ==
    IF n > Len(s) THEN Fail
    ELSE CASE s[n] = "\"" -> ScanString(s, n + 1, <<>>)
           [] s[n] = "{" -> ParseObject(s, n + 1)
           [] s[n] = "[" -> ParseArray(s, n + 1)
           [] s[n] \in Digits -> ScanNumber(s, n, 0)
           [] OTHER -> Fail

\* JSONDecoder.decode: one value between optional whitespace, nothing after it
json_loads(s) ==
    LET value == ScanOnce(s, SkipWs(s, 1))
    IN IF ~value.ok THEN Fail
       ELSE IF SkipWs(s, value.end) # Len(s) + 1 THEN Fail
       ELSE value

-----------------------------------------------------------------------------
(* bicep_whatif_advisor/cli.py: extract_json *)

\* str.find(c): the 1-based position of the first c, 0 when there is none
Find(s, c) ==
    IF \E n \in 1..Len(s) : s[n] = c
    THEN CHOOSE n \in 1..Len(s) : s[n] = c /\ \A m \in 1..(n - 1) : s[m] # c
    ELSE 0

ParseVerbatimNever(t) == Fail

\* lines 30-33 (and whatif_explain/cli.py 28-31): json.loads(text)
ParseVerbatim(t) == json_loads(t)

SliceCandidateShort(t, first, last) == SubSeq(t, first, last - 1)

\* line 70: text[start:i+1]
SliceCandidate(t, first, last) == SubSeq(t, first, last)

\* a scan that tracks string literals but counts the braces inside them too
ScanCharCountsInString(char, depth, instr, esc) ==
    IF esc
    THEN [brace_count |-> depth, in_string |-> instr, escape_next |-> FALSE, closed |-> FALSE]
    ELSE IF char = "\\"
    THEN [brace_count |-> depth, in_string |-> instr, escape_next |-> TRUE, closed |-> FALSE]
    ELSE IF char = "\"" /\ ~esc
    THEN [brace_count |-> depth, in_string |-> ~instr, escape_next |-> esc, closed |-> FALSE]
    ELSE IF char = "{"
    THEN [brace_count |-> depth + 1, in_string |-> instr, escape_next |-> esc, closed |-> FALSE]
    ELSE IF char = "}"
    THEN [brace_count |-> depth - 1, in_string |-> instr, escape_next |-> esc,
          closed |-> depth - 1 = 0]
    ELSE [brace_count |-> depth, in_string |-> instr, escape_next |-> esc, closed |-> FALSE]

\* a scan that counts every brace, in or out of a string literal
ScanCharNaive(char, depth, instr, esc) ==
    IF char = "{"
    THEN [brace_count |-> depth + 1, in_string |-> instr, escape_next |-> esc, closed |-> FALSE]
    ELSE IF char = "}"
    THEN [brace_count |-> depth - 1, in_string |-> instr, escape_next |-> esc,
          closed |-> depth - 1 = 0]
    ELSE [brace_count |-> depth, in_string |-> instr, escape_next |-> esc, closed |-> FALSE]

\* lines 47-68: one iteration of the scan loop on the character char; closed is
\* set when the brace count has returned to zero
ScanChar(char, depth, instr, esc) ==
    IF esc
    THEN [brace_count |-> depth, in_string |-> instr, escape_next |-> FALSE, closed |-> FALSE]
    ELSE IF char = "\\"
    THEN [brace_count |-> depth, in_string |-> instr, escape_next |-> TRUE, closed |-> FALSE]
    ELSE IF char = "\"" /\ ~esc
    THEN [brace_count |-> depth, in_string |-> ~instr, escape_next |-> esc, closed |-> FALSE]
    ELSE IF instr
    THEN [brace_count |-> depth, in_string |-> instr, escape_next |-> esc, closed |-> FALSE]
    ELSE IF char = "{"
    THEN [brace_count |-> depth + 1, in_string |-> instr, escape_next |-> esc, closed |-> FALSE]
    ELSE IF char = "}"
    THEN [brace_count |-> depth - 1, in_string |-> instr, escape_next |-> esc,
          closed |-> depth - 1 = 0]
    ELSE [brace_count |-> depth, in_string |-> instr, escape_next |-> esc, closed |-> FALSE]

\* lines 29-33: try parsing as-is first
TryVerbatim ==
    /\ pc = "verbatim"
    /\ LET r == ParseVerbatim(text)
       IN IF r.ok
          THEN /\ outcome' = Return(r.val)
               /\ pc' = "done"
          ELSE /\ pc' = "find"
               /\ UNCHANGED outcome
    /\ UNCHANGED <<text, origin, start, i, brace_count, in_string, escape_next,
                   candidates, legacy>>
    /\ UNCHANGED gate_vars
    /\ UNCHANGED pipeline_vars

\* lines 37-44: start = text.find('{'); the scan state is initialised
FindStart ==
    /\ pc = "find"
    /\ LET first == Find(text, "{")
       IN IF first = 0
          THEN /\ outcome' = Raise("ValueError")
               /\ pc' = "done"
               /\ UNCHANGED <<start, i, brace_count, in_string, escape_next>>
          ELSE /\ start' = first
               /\ i' = first
               /\ brace_count' = 0
               /\ in_string' = FALSE
               /\ escape_next' = FALSE
               /\ pc' = "scan"
               /\ UNCHANGED outcome
    /\ UNCHANGED <<text, origin, candidates, legacy>>
    /\ UNCHANGED gate_vars
    /\ UNCHANGED pipeline_vars

\* lines 46-75: one iteration of the for loop
ScanStep ==
    /\ pc = "scan"
    /\ i <= Len(text)
    /\ LET s == ScanChar(text[i], brace_count, in_string, escape_next)
       IN /\ brace_count' = s.brace_count
          /\ in_string' = s.in_string
          /\ escape_next' = s.escape_next
          /\ IF s.closed
             THEN LET json_str == SliceCandidate(text, start, i)
                      r == json_loads(json_str)
                  IN /\ candidates' = Append(candidates, json_str)
                     /\ outcome' = IF r.ok THEN Return(r.val) ELSE Raise("ValueError")
                     /\ pc' = "done"
                     /\ UNCHANGED i
             ELSE /\ i' = i + 1
                  /\ UNCHANGED <<candidates, outcome, pc>>
    /\ UNCHANGED <<text, origin, start, legacy>>
    /\ UNCHANGED gate_vars
    /\ UNCHANGED pipeline_vars

\* a scan that falls off the end of the function, returning None
ScanExhaustedSilent ==
    /\ pc = "scan"
    /\ i > Len(text)
    /\ outcome' = Return(PNone)
    /\ pc' = "done"
    /\ UNCHANGED <<text, origin, start, i, brace_count, in_string, escape_next,
                   candidates, legacy>>
    /\ UNCHANGED gate_vars
    /\ UNCHANGED pipeline_vars

\* lines 77-78: the loop ran off the end of the text
ScanExhausted ==
    /\ pc = "scan"
    /\ i > Len(text)
    /\ outcome' = Raise("ValueError")
    /\ pc' = "done"
    /\ UNCHANGED <<text, origin, start, i, brace_count, in_string, escape_next,
                   candidates, legacy>>
    /\ UNCHANGED gate_vars
    /\ UNCHANGED pipeline_vars

-----------------------------------------------------------------------------
(* whatif_explain/cli.py: extract_json with re.search *)

\* the position after the longest run of (?:[^{}]|(?:\{[^{}]*\})) items from n
RECURSIVE ItemsEnd(_, _)
ItemsEnd(s, n) ==
    IF n > Len(s) THEN n
    ELSE IF s[n] \notin {"{", "}"} THEN ItemsEnd(s, n + 1)
    ELSE IF s[n] = "}" THEN n
    ELSE LET braces == {m \in (n + 1)..Len(s) : s[m] \in {"{", "}"}}
         IN IF braces = {} THEN n
            ELSE LET c == CHOOSE m \in braces : \A k \in braces : m <= k
                 IN IF s[c] = "}" THEN ItemsEnd(s, c + 1) ELSE n

\* the match of \{ items* \} at position n: the position of its last character, or 0.
\* An item never starts with "}", so only the longest run can be followed by it.
MatchAt(s, n) ==
    IF s[n] # "{" THEN 0
    ELSE LET e == ItemsEnd(s, n + 1)
         IN IF e <= Len(s) /\ s[e] = "}" THEN e ELSE 0

\* re.search: the leftmost match, as <<first, last>>, or <<0, 0>>
RegexSearch(s) ==
    LET starts == {n \in 1..Len(s) : MatchAt(s, n) # 0}
    IN IF starts = {} THEN <<0, 0>>
       ELSE LET first == CHOOSE n \in starts : \A m \in starts : n <= m
            IN <<first, MatchAt(s, first)>>

extract_json_regex(t) ==
    LET r == ParseVerbatim(t)
    IN IF r.ok THEN Return(r.val)
       ELSE LET match == RegexSearch(t)
            IN IF match[1] = 0 THEN Raise("ValueError")
               ELSE LET c == json_loads(SubSeq(t, match[1], match[2]))
                    IN IF c.ok THEN Return(c.val) ELSE Raise("ValueError")

\* the same text handed to the regex variant
ExtractLegacy ==
    /\ pc = "done"
    /\ legacy' = extract_json_regex(text)
    /\ pc' = "compared"
    /\ UNCHANGED <<text, origin, start, i, brace_count, in_string, escape_next,
                   candidates, outcome>>
    /\ UNCHANGED gate_vars
    /\ UNCHANGED pipeline_vars

-----------------------------------------------------------------------------
(* the texts handed to extract_json *)

MaxRaw == 5
MaxAffix == 2

RawChars == {"{", "}", "\"", "\\", "a", "1"}
AffixChars == {"{", "}", "\"", "[", "]", " ", "a"}

RECURSIVE StringsOfLen(_, _)
StringsOfLen(chars, n) ==
    IF n = 0 THEN {<<>>}
    ELSE {Append(s, c) : s \in StringsOfLen(chars, n - 1), c \in chars}

StringsUpTo(chars, n) == UNION {StringsOfLen(chars, k) : k \in 0..n}

\* a JSON document as a tree: a string, a number or an object of members
DStr(chars) == [t |-> "dstr", v |-> chars]
DNum(n) == [t |-> "dnum", v |-> n]
DObj(members) == [t |-> "dobj", v |-> members]

\* the objects a well-behaved model reply may hold (member keys are distinct)
FramedObjects ==
    { DObj(<<>>),
      DObj(<< <<<<"a">>, DNum(1)>> >>),
      DObj(<< <<<<"a">>, DStr(<<"\"", "}">>)>> >>),
      DObj(<< <<<<"}", "\"">>, DNum(1)>> >>),
      DObj(<< <<<<"a">>, DObj(<< <<<<"a">>, DStr(<<"{", "\"", "}">>)>> >>)>> >>),
      DObj(<< <<<<"a">>, DStr(<<"}", "\\">>)>> >>),
      DObj(<< <<<<"a">>, DStr(<<"\"", "}">>)>>, <<<<"1">>, DObj(<<>>)>> >>) }

RECURSIVE Concat(_)
Concat(seqs) == IF seqs = <<>> THEN <<>> ELSE Head(seqs) \o Concat(Tail(seqs))

\* the JSON string literal of a character sequence
EncodeString(chars) ==
    <<"\"">>
    \o Concat([n \in 1..Len(chars) |->
                  IF chars[n] \in {"\"", "\\"} THEN <<"\\", chars[n]>> ELSE <<chars[n]>>])
    \o <<"\"">>

RECURSIVE EncodeNumber(_)
EncodeNumber(n) == IF n < 10 THEN <<"1">> ELSE EncodeNumber(n \div 10) \o <<"1">>

\* the compact JSON text of a document
RECURSIVE Encode(_)
Encode(doc) ==
    CASE doc.t = "dstr" -> EncodeString(doc.v)
      [] doc.t = "dnum" -> EncodeNumber(doc.v)
      [] doc.t = "dobj" ->
            <<"{">>
            \o Concat([n \in 1..Len(doc.v) |->
                          (IF n > 1 THEN <<",">> ELSE <<>>)
                          \o EncodeString(doc.v[n][1]) \o <<":">> \o Encode(doc.v[n][2])])
            \o <<"}">>

Affixes ==
    {pair \in StringsUpTo(AffixChars, MaxAffix) \X StringsUpTo(AffixChars, MaxAffix) :
        Len(pair[1]) + Len(pair[2]) <= MaxAffix}

GateIdle ==
    /\ data = Response(Absent)
    /\ drift_threshold = "high"
    /\ intent_threshold = "high"
    /\ operations_threshold = "high"
    /\ gate_pc = "idle"
    /\ gate_result = NoResult
    /\ gate_prev = NoResult
    /\ raised_bucket = "none"

ExtractInit ==
    /\ \/ /\ text \in StringsUpTo(RawChars, MaxRaw)
          /\ origin = [kind |-> "raw"]
       \/ \E pair \in Affixes, doc \in FramedObjects :
             /\ text = pair[1] \o Encode(doc) \o pair[2]
             /\ origin = [kind |-> "framed", prefix |-> pair[1], doc |-> doc,
                          suffix |-> pair[2]]
    /\ pc = "verbatim"
    /\ start = 0
    /\ i = 0
    /\ brace_count = 0
    /\ in_string = FALSE
    /\ escape_next = FALSE
    /\ candidates = <<>>
    /\ outcome = NoResult
    /\ legacy = NoResult
    /\ GateIdle
    /\ PipelineIdle

ExtractNext ==
    \/ TryVerbatim
    \/ FindStart
    \/ ScanStep
    \/ ScanExhausted
    \/ ExtractLegacy

SpecExtract == ExtractInit /\ [][ExtractNext]_vars

-----------------------------------------------------------------------------
(* bicep_whatif_advisor/cli.py: the normalization step of main (lines       *)
(* 373-387) and filter_by_confidence (lines 81-127), on Python values.      *)

ResponseDict(res, summary, ra, verdict) ==
    JDict([resources |-> res, overall_summary |-> summary,
           risk_assessment |-> ra, verdict |-> verdict])

Resource(name, type, action, summary, level, reason) ==
    JDict([resource_name |-> name, resource_type |-> type, action |-> action,
           summary |-> summary, confidence_level |-> level, confidence_reason |-> reason])

\* key in s for a str s: among the strings of the model only the key itself holds it
StrContains(s, key) == s = key

\* iterating a str yields its characters
CharsOf(s) ==
    CASE s = "" -> <<>>
      [] s = "ab" -> <<JStr("a"), JStr("b")>>
      [] OTHER -> <<JStr(s)>>

\* key in x: dict membership, list membership, substring test; TypeError otherwise
Contains(x, key) ==
    CASE x.t = "dict" -> Return(HasKey(x, key))
      [] x.t = "list" -> Return(\E n \in 1..Len(x.v) : x.v[n] = JStr(key))
      [] x.t = "str" -> Return(StrContains(x.v, key))
      [] OTHER -> Raise("TypeError")

\* x[key] = value: only a dict takes a str key
SetItem(x, key, value) ==
    IF x.t = "dict" THEN Return([x EXCEPT !.v[key] = value]) ELSE Raise("TypeError")

\* if key not in x: x[key] = value
SetDefault(x, key, value) ==
    LET present == Contains(x, key)
    IN IF present.kind = "raise" THEN present
       ELSE IF present.val THEN Return(x)
       ELSE SetItem(x, key, value)

\* x.get(key, default): only a dict has the method
GetMethod(x, key, default) ==
    IF x.t = "dict" THEN Return(DictGet(x, key, default)) ELSE Raise("AttributeError")

\* for element in x: a list yields its elements, a str its characters
Iter(x) ==
    CASE x.t = "list" -> Return(x.v)
      [] x.t = "str" -> Return(CharsOf(x.v))
      [] x.t \in {"null", "num", "bool"} -> Raise("TypeError")

\* a resource whose confidence_level is set whether or not it was given
NormalizeResourceOverwrite(resource) ==
    LET level == SetItem(resource, "confidence_level", JStr("medium"))
    IN IF level.kind = "raise" THEN level
       ELSE SetDefault(level.val, "confidence_reason",
                       JStr("No confidence assessment provided"))

\* the second default written as an elif of the first
NormalizeResourceElif(resource) ==
    LET present == Contains(resource, "confidence_level")
    IN IF present.kind = "raise" THEN present
       ELSE IF ~present.val THEN SetItem(resource, "confidence_level", JStr("medium"))
       ELSE SetDefault(resource, "confidence_reason",
                       JStr("No confidence assessment provided"))

\* lines 384-387: the body of the loop over the resources
NormalizeResource(resource) ==
    LET level == SetDefault(resource, "confidence_level", JStr("medium"))
    IN IF level.kind = "raise" THEN level
       ELSE SetDefault(level.val, "confidence_reason",
                       JStr("No confidence assessment provided"))

\* lines 383-387: the loop, stopped by the first exception
RECURSIVE NormalizeResources(_, _)
NormalizeResources(todo, done) ==
    IF todo = <<>> THEN Return(done)
    ELSE LET resource == NormalizeResource(Head(todo))
         IN IF resource.kind = "raise" THEN resource
            ELSE NormalizeResources(Tail(todo), Append(done, resource.val))

\* lines 373-387.  The resources are dicts changed in place, so a list of
\* resources holds the changed resources afterwards; the characters a str
\* yields are temporaries.
Normalization(d) ==
    LET with_resources == SetDefault(d, "resources", JList(<<>>))
    IN IF with_resources.kind = "raise" THEN with_resources
       ELSE
       LET with_summary == SetDefault(with_resources.val, "overall_summary",
                                      JStr("No summary provided."))
       IN IF with_summary.kind = "raise" THEN with_summary
          ELSE
          LET resources == GetMethod(with_summary.val, "resources", JList(<<>>))
          IN IF resources.kind = "raise" THEN resources
             ELSE
             LET elements == Iter(resources.val)
             IN IF elements.kind = "raise" THEN elements
                ELSE
                LET changed == NormalizeResources(elements.val, <<>>)
                IN IF changed.kind = "raise" THEN changed
                   ELSE IF resources.val.t = "list"
                   THEN Return([with_summary.val EXCEPT !.v.resources = JList(changed.val)])
                   ELSE Return(with_summary.val)

\* line 100: resource.get("confidence_level", "medium").lower()
Confidence(resource) ==
    LET level == GetMethod(resource, "confidence_level", JStr("medium"))
    IN IF level.kind = "raise" THEN level
       ELSE IF level.val.t # "str" THEN Raise("AttributeError")
       ELSE Return(Lower(level.val.v))

IsLowConfidenceExact(confidence) == confidence = "low"

\* line 102: confidence in ("low", "noise")
IsLowConfidence(confidence) == confidence \in {"low", "noise"}

\* a loop that also keeps the low-confidence resources in the analysed list
RECURSIVE RouteResourcesKeepAll(_, _, _)
RouteResourcesKeepAll(todo, high, low) ==
    IF todo = <<>> THEN Return([high |-> high, low |-> low])
    ELSE LET confidence == Confidence(Head(todo))
         IN IF confidence.kind = "raise" THEN confidence
            ELSE IF IsLowConfidence(confidence.val)
            THEN RouteResourcesKeepAll(Tail(todo), Append(high, Head(todo)),
                                       Append(low, Head(todo)))
            ELSE RouteResourcesKeepAll(Tail(todo), Append(high, Head(todo)), low)

\* lines 96-107: the loop that appends each resource to one of the two lists
RECURSIVE RouteResources(_, _, _)
RouteResources(todo, high, low) ==
    IF todo = <<>> THEN Return([high |-> high, low |-> low])
    ELSE LET confidence == Confidence(Head(todo))
         IN IF confidence.kind = "raise" THEN confidence
            ELSE IF IsLowConfidence(confidence.val)
            THEN RouteResources(Tail(todo), high, Append(low, Head(todo)))
            ELSE RouteResources(Tail(todo), Append(high, Head(todo)), low)

HighDataNoVerdict(d, high_confidence_resources) ==
    ResponseDict(JList(high_confidence_resources),
                 DictGet(d, "overall_summary", JStr("")),
                 IF HasKey(d, "risk_assessment") THEN d.v.risk_assessment ELSE Absent,
                 Absent)

\* lines 110-119: high_confidence_data
HighData(d, high_confidence_resources) ==
    ResponseDict(JList(high_confidence_resources),
                 DictGet(d, "overall_summary", JStr("")),
                 IF HasKey(d, "risk_assessment") THEN d.v.risk_assessment ELSE Absent,
                 IF HasKey(d, "verdict") THEN d.v.verdict ELSE Absent)

\* lines 122-125: low_confidence_data
LowData(low_confidence_resources) ==
    ResponseDict(JList(low_confidence_resources), JStr(""), Absent, Absent)

filter_by_confidence(d) ==
    LET resources == GetMethod(d, "resources", JList(<<>>))
    IN IF resources.kind = "raise" THEN resources
       ELSE
       LET elements == Iter(resources.val)
       IN IF elements.kind = "raise" THEN elements
          ELSE
          LET routed == RouteResources(elements.val, <<>>, <<>>)
          IN IF routed.kind = "raise" THEN routed
             ELSE Return([high |-> HighData(d, routed.val.high),
                          low |-> LowData(routed.val.low)])

-----------------------------------------------------------------------------
(* the values handed to the normalization step and to filter_by_confidence  *)

MaxResources == 2

ConfidenceLevels ==
    {Absent, JNull} \cup {JStr(s) : s \in {"low", "LOW", "noise", "Noise", "medium", "high", "bogus"}}

\* a resource as the prompt asks for it, with any confidence_level
FullResource(level) ==
    Resource(JStr("vm"), JStr("Microsoft.Compute"), JStr("Modify"), JStr("resized"),
             level, JStr("known pattern"))

\* a resource that holds nothing but, possibly, a confidence_level
BareResource(level) == Resource(Absent, Absent, Absent, Absent, level, Absent)

\* array entries that are not objects
NonObjectEntries ==
    {JNum(1), JStr("x"), JList(<<JStr("confidence_level"), JStr("confidence_reason")>>)}

ResourceValues ==
    {FullResource(l) : l \in ConfidenceLevels}
    \cup {BareResource(l) : l \in {Absent, JStr("low"), JStr("high")}}
    \cup NonObjectEntries

RECURSIVE ListsOfLen(_, _)
ListsOfLen(elems, n) ==
    IF n = 0 THEN {<<>>}
    ELSE {Append(l, e) : l \in ListsOfLen(elems, n - 1), e \in elems}

ListsUpTo(elems, n) == UNION {ListsOfLen(elems, k) : k \in 0..n}

ResourcesValues ==
    {Absent, JNull, JNum(1), JStr(""), JStr("ab")}
    \cup {JList(l) : l \in ListsUpTo(ResourceValues, MaxResources)}

Verdict(safe) == JDict([safe |-> JBool(safe)])

AssessmentDriftHigh ==
    Assessment(Bucket(JStr("high")), Absent, Bucket(JStr("low")), Absent)

AssessmentAllLow ==
    Assessment(Bucket(JStr("low")), Bucket(JStr("low")), Bucket(JStr("low")), Absent)

\* the (risk_assessment, verdict) pairs of a response
CiFieldValues ==
    {<<Absent, Absent>>, <<AssessmentDriftHigh, Verdict(FALSE)>>, <<JNull, Absent>>,
     <<Absent, JNull>>}

\* the JSON values extract_json can return that are not objects
NonObjectValues ==
    {JNull, JNum(1), JStr("x"), JList(<<>>),
     JList(<<JStr("resources"), JStr("overall_summary")>>)}

RawValues ==
    NonObjectValues
    \cup {ResponseDict(res, summary, ci_fields[1], ci_fields[2]) :
             res \in ResourcesValues, summary \in {Absent, JStr("two changes")},
             ci_fields \in CiFieldValues}

ResponseInit ==
    /\ raw \in RawValues
    /\ resp_pc = "start"
    /\ normalized = NoResult
    /\ renormalized = NoResult
    /\ partition_input = JNull
    /\ partition = NoResult
    /\ GateIdle
    /\ ExtractIdle
    /\ MainIdle
    /\ ProviderIdle

\* main, lines 373-387, on the value extract_json returned
Normalize ==
    /\ resp_pc = "start"
    /\ normalized' = Normalization(raw)
    /\ resp_pc' = "normalized"
    /\ UNCHANGED <<raw, renormalized, partition_input, partition>>
    /\ UNCHANGED <<gate_vars, extract_vars, main_vars, provider_vars>>

\* the normalization step applied to a response it has already normalized
NormalizeAgain ==
    /\ resp_pc = "normalized"
    /\ normalized.kind = "return"
    /\ renormalized' = Normalization(normalized.val)
    /\ resp_pc' = "renormalized"
    /\ UNCHANGED <<raw, normalized, partition_input, partition>>
    /\ UNCHANGED <<gate_vars, extract_vars, main_vars, provider_vars>>

\* filter_by_confidence called on a response as it was parsed
PartitionRaw ==
    /\ resp_pc = "start"
    /\ partition_input' = raw
    /\ partition' = filter_by_confidence(raw)
    /\ resp_pc' = "partitioned"
    /\ UNCHANGED <<raw, normalized, renormalized>>
    /\ UNCHANGED <<gate_vars, extract_vars, main_vars, provider_vars>>

\* main, line 408: filter_by_confidence called on the normalized response
PartitionNormalized ==
    /\ resp_pc = "normalized"
    /\ normalized.kind = "return"
    /\ partition_input' = normalized.val
    /\ partition' = filter_by_confidence(normalized.val)
    /\ resp_pc' = "partitioned"
    /\ UNCHANGED <<raw, normalized, renormalized>>
    /\ UNCHANGED <<gate_vars, extract_vars, main_vars, provider_vars>>

ResponseNext ==
    \/ Normalize
    \/ NormalizeAgain
    \/ PartitionRaw
    \/ PartitionNormalized

SpecResponse == ResponseInit /\ [][ResponseNext]_vars

-----------------------------------------------------------------------------
(* bicep_whatif_advisor/cli.py: main from the model call to the exit of the *)
(* process (lines 358-533).  A call of the provider's complete() is in      *)
(* flight between the step that makes it and the step that takes its reply; *)
(* the reply is represented by what extract_json makes of it.  The run is   *)
(* one without --noise-file (line 390).                                     *)

\* x[key]
GetItem(x, key) ==
    IF x.t = "dict"
    THEN IF HasKey(x, key) THEN Return(x.v[key]) ELSE Raise("KeyError")
    ELSE Raise("TypeError")

\* lines 428-435: the marker of an action, "~" for an action that is not listed
ActionSymbol(action) ==
    CASE action = "create" -> "+"
      [] action = "modify" -> "~"
      [] action = "delete" -> "-"
      [] action = "deploy" -> "="
      [] action = "nochange" -> "*"
      [] action = "ignore" -> "x"
      [] OTHER -> "~"

\* an entry whose marker is looked up without lower-casing the action
ReducedEntryCaseSensitive(resource) ==
    LET action == GetMethod(resource, "action", JStr(""))
    IN IF action.kind = "raise" THEN action
       ELSE IF action.val.t # "str" THEN Raise("AttributeError")
       ELSE
       LET name == GetItem(resource, "resource_name")
       IN IF name.kind = "raise" THEN name
          ELSE
          LET summary == GetItem(resource, "summary")
          IN IF summary.kind = "raise" THEN summary
             ELSE Return([symbol |-> ActionSymbol(action.val.v),
                          resource_name |-> name.val, summary |-> summary.val])

\* lines 427-438: the two lines appended for one high-confidence resource
ReducedEntry(resource) ==
    LET action == GetMethod(resource, "action", JStr(""))
    IN IF action.kind = "raise" THEN action
       ELSE IF action.val.t # "str" THEN Raise("AttributeError")
       ELSE
       LET name == GetItem(resource, "resource_name")
       IN IF name.kind = "raise" THEN name
          ELSE
          LET summary == GetItem(resource, "summary")
          IN IF summary.kind = "raise" THEN summary
             ELSE Return([symbol |-> ActionSymbol(Lower(action.val.v)),
                          resource_name |-> name.val, summary |-> summary.val])

\* lines 425-438: filtered_whatif_lines after the header line
RECURSIVE ReducedInput(_, _)
ReducedInput(todo, done) ==
    IF todo = <<>> THEN Return(done)
    ELSE LET entry == ReducedEntry(Head(todo))
         IN IF entry.kind = "raise" THEN entry
            ELSE ReducedInput(Tail(todo), Append(done, entry.val))

\* a merge that takes the whole second response as the analysed view
MergeFeedbackWhole(high, filtered_data) ==
    IF filtered_data.t = "dict" THEN Return(filtered_data) ELSE Raise("TypeError")

\* lines 466-469: the fresh risk_assessment and verdict are copied when present
MergeFeedback(high, filtered_data) ==
    LET has_assessment == Contains(filtered_data, "risk_assessment")
    IN IF has_assessment.kind = "raise" THEN has_assessment
       ELSE
       LET assessment == GetItem(filtered_data, "risk_assessment")
       IN IF has_assessment.val /\ assessment.kind = "raise" THEN assessment
          ELSE
          LET high1 == IF has_assessment.val
                       THEN [high EXCEPT !.v.risk_assessment = assessment.val]
                       ELSE high
              has_verdict == Contains(filtered_data, "verdict")
              verdict == GetItem(filtered_data, "verdict")
          IN IF has_verdict.kind = "raise" THEN has_verdict
             ELSE IF has_verdict.val /\ verdict.kind = "raise" THEN verdict
             ELSE IF has_verdict.val
             THEN Return([high1 EXCEPT !.v.verdict = verdict.val])
             ELSE Return(high1)

\* the resources of the replies of a run of main
MainResourceValues ==
    {FullResource(JStr("low")), FullResource(JStr("high")), FullResource(Absent),
     BareResource(JStr("high")), BareResource(JStr("noise")), FullResource(JNull)}

\* the values of a resource's action: the six actions of the prompt in
\* several spellings, an action that is not listed, none, and null
ActionValues ==
    {Absent, JNull}
    \cup {JStr(s) : s \in {"Create", "modify", "Delete", "deploy", "NoChange", "ignore",
                           "unsupported"}}

\* a high-confidence resource with the given name and action
ActionResource(name, action) ==
    Resource(JStr(name), JStr("Microsoft.Network"), action, JStr("added"),
             JStr("high"), JStr("new resource"))

\* two high-confidence resources around a low-confidence one
ActionLists ==
    {<<ActionResource("vnet", a), FullResource(JStr("low")), ActionResource("nic", b)>> :
        a \in ActionValues, b \in {JStr("Create"), Absent}}

\* a risk_assessment whose drift bucket holds "risk_level": null
AssessmentNullLevel ==
    Assessment(Bucket(JNull), Absent, Bucket(JStr("low")), Absent)

\* the values extract_json returns for the first reply
FirstValues ==
    {JNum(1), JList(<<>>)}
    \cup {ResponseDict(res, JStr("two changes"), ci_fields[1], ci_fields[2]) :
             res \in {Absent, JNull}
                     \cup {JList(l) : l \in ListsUpTo(MainResourceValues, MaxResources)},
             ci_fields \in {<<Absent, Absent>>, <<AssessmentDriftHigh, Verdict(FALSE)>>,
                            <<AssessmentNullLevel, Absent>>}}
    \cup {ResponseDict(JList(l), JStr("two changes"), AssessmentDriftHigh, Verdict(FALSE)) :
             l \in ActionLists}

\* the values extract_json returns for the reply of the re-invocation
SecondValues ==
    {JNum(1), JList(<<JStr("risk_assessment")>>),
     ResponseDict(JList(<<FullResource(JStr("low"))>>), JStr("one change"),
                  AssessmentAllLow, Verdict(TRUE)),
     ResponseDict(JList(<<>>), JStr("one change"), AssessmentAllLow, Absent),
     ResponseDict(JList(<<>>), JStr("one change"), Absent, Verdict(TRUE)),
     ResponseDict(Absent, Absent, Absent, Absent)}

\* extract_json either returns a value or raises ValueError
ExtractOutcomes(values) == {Raise("ValueError")} \cup {Return(v) : v \in values}

MainInit ==
    /\ ci \in BOOLEAN
    /\ no_block \in BOOLEAN
    /\ response_text = <<>>
    /\ truncated = <<>>
    /\ rendered = JNull
    /\ main_pc = "call"
    /\ llm_calls = 0
    /\ in_flight = 0
    /\ response = NoResult
    /\ main_data = JNull
    /\ high_confidence_data = JNull
    /\ low_confidence_data = JNull
    /\ high_before = JNull
    /\ low_before = JNull
    /\ filtered_response = NoResult
    /\ filtered_whatif = <<>>
    /\ stderr = <<>>
    /\ exit_code = -1
    /\ GateIdle
    /\ ExtractIdle
    /\ ResponseIdle
    /\ ProviderIdle

\* sys.exit(code), and the handler of line 531 for any other exception
Exit(code, message) ==
    /\ exit_code' = code
    /\ stderr' = Append(stderr, message)
    /\ main_pc' = "exited"

\* line 359: llm_provider.complete(system_prompt, user_prompt) is called
CallModel ==
    /\ main_pc = "call"
    /\ llm_calls' = llm_calls + 1
    /\ in_flight' = in_flight + 1
    /\ main_pc' = "await"
    /\ UNCHANGED <<ci, response, main_data, high_confidence_data, low_confidence_data,
                   high_before, low_before, filtered_response, filtered_whatif,
                   stderr, exit_code>>
    /\ UNCHANGED <<option_vars, output_vars>>
    /\ UNCHANGED <<gate_vars, extract_vars, resp_vars, provider_vars>>

\* providers: complete() ends the process with sys.exit(1) on an API error
ModelFails ==
    /\ main_pc \in {"await", "await_feedback"}
    /\ in_flight' = in_flight - 1
    /\ Exit(1, "Error: provider")
    /\ UNCHANGED <<ci, llm_calls, response, main_data, high_confidence_data,
                   low_confidence_data, high_before, low_before, filtered_response,
                   filtered_whatif>>
    /\ UNCHANGED <<option_vars, output_vars>>
    /\ UNCHANGED <<gate_vars, extract_vars, resp_vars, provider_vars>>

\* line 366: the length of the preview of a reply that is not JSON
PreviewLimit == 500

\* a reply of n characters without a brace; the characters past the preview
\* limit are told apart from the ones before it
Reply(n) == [k \in 1..n |-> IF k <= PreviewLimit THEN "x" ELSE "s"]

\* the replies extract_json rejects
RejectedReplies ==
    {Reply(n) : n \in {0, 1, PreviewLimit, PreviewLimit + 1, PreviewLimit + 2}}

\* line 366: response_text[:500] + "..." if len(response_text) > 500 else response_text
Truncated(reply) ==
    IF Len(reply) > PreviewLimit
    THEN SubSeq(reply, 1, PreviewLimit) \o <<".", ".", ".">>
    ELSE reply

\* lines 359-371: the reply arrives and is handed to extract_json
ModelReturns ==
    /\ main_pc = "await"
    /\ in_flight' = in_flight - 1
    /\ \E extracted \in ExtractOutcomes(FirstValues) :
          /\ response' = extracted
          /\ IF extracted.kind = "raise"
             THEN /\ \E reply \in RejectedReplies :
                        /\ response_text' = reply
                        /\ truncated' = Truncated(reply)
                  /\ Exit(1, "Error: LLM did not return valid JSON.")
                  /\ UNCHANGED main_data
             ELSE /\ main_data' = extracted.val
                  /\ main_pc' = "normalize"
                  /\ UNCHANGED <<stderr, exit_code, response_text, truncated>>
    /\ UNCHANGED <<ci, llm_calls, high_confidence_data, low_confidence_data,
                   high_before, low_before, filtered_response, filtered_whatif>>
    /\ UNCHANGED <<option_vars, rendered>>
    /\ UNCHANGED <<gate_vars, extract_vars, resp_vars, provider_vars>>

\* lines 373-387; an exception is reported by the handler of lines 531-533
NormalizeData ==
    /\ main_pc = "normalize"
    /\ LET result == Normalization(main_data)
       IN IF result.kind = "raise"
          THEN /\ Exit(1, "Error: exception")
               /\ UNCHANGED main_data
          ELSE /\ main_data' = result.val
               /\ main_pc' = "partition"
               /\ UNCHANGED <<stderr, exit_code>>
    /\ UNCHANGED <<ci, llm_calls, in_flight, response, high_confidence_data,
                   low_confidence_data, high_before, low_before, filtered_response,
                   filtered_whatif>>
    /\ UNCHANGED <<option_vars, output_vars>>
    /\ UNCHANGED <<gate_vars, extract_vars, resp_vars, provider_vars>>

\* lines 407-408
PartitionData ==
    /\ main_pc = "partition"
    /\ LET result == filter_by_confidence(main_data)
       IN IF result.kind = "raise"
          THEN /\ Exit(1, "Error: exception")
               /\ UNCHANGED <<high_confidence_data, low_confidence_data,
                              high_before, low_before>>
          ELSE /\ high_confidence_data' = result.val.high
               /\ low_confidence_data' = result.val.low
               /\ high_before' = result.val.high
               /\ low_before' = result.val.low
               /\ main_pc' = "feedback"
               /\ UNCHANGED <<stderr, exit_code>>
    /\ UNCHANGED <<ci, llm_calls, in_flight, response, main_data, filtered_response,
                   filtered_whatif>>
    /\ UNCHANGED <<option_vars, output_vars>>
    /\ UNCHANGED <<gate_vars, extract_vars, resp_vars, provider_vars>>

\* line 413: ci and low_confidence_data.get("resources")
NeedsFeedback(ci_mode, low) == ci_mode /\ Truthy(DictGet(low, "resources", JNull))

\* lines 413-459: the reduced input is built and the model is called again
StartFeedback ==
    /\ main_pc = "feedback"
    /\ NeedsFeedback(ci, low_confidence_data)
    /\ LET lines == ReducedInput(DictGet(high_confidence_data, "resources", JList(<<>>)).v, <<>>)
       IN IF lines.kind = "raise"
          THEN /\ exit_code' = 1
               /\ stderr' = stderr \o <<"Recalculating risk assessment", "Error: exception">>
               /\ main_pc' = "exited"
               /\ UNCHANGED <<llm_calls, in_flight, filtered_whatif>>
          ELSE /\ filtered_whatif' = lines.val
               /\ llm_calls' = llm_calls + 1
               /\ in_flight' = in_flight + 1
               /\ stderr' = Append(stderr, "Recalculating risk assessment")
               /\ main_pc' = "await_feedback"
               /\ UNCHANGED exit_code
    /\ UNCHANGED <<ci, response, main_data, high_confidence_data, low_confidence_data,
                   high_before, low_before, filtered_response>>
    /\ UNCHANGED <<option_vars, output_vars>>
    /\ UNCHANGED <<gate_vars, extract_vars, resp_vars, provider_vars>>

\* line 413, condition false: the run goes on to rendering
SkipFeedback ==
    /\ main_pc = "feedback"
    /\ ~NeedsFeedback(ci, low_confidence_data)
    /\ main_pc' = "render"
    /\ UNCHANGED <<ci, llm_calls, in_flight, response, main_data, high_confidence_data,
                   low_confidence_data, high_before, low_before, filtered_response,
                   filtered_whatif, stderr, exit_code>>
    /\ UNCHANGED <<option_vars, output_vars>>
    /\ UNCHANGED <<gate_vars, extract_vars, resp_vars, provider_vars>>

\* lines 459-477: the second reply is extracted and merged
FeedbackReturns ==
    /\ main_pc = "await_feedback"
    /\ in_flight' = in_flight - 1
    /\ \E extracted \in ExtractOutcomes(SecondValues) :
          /\ filtered_response' = extracted
          /\ IF extracted.kind = "raise"
             THEN /\ stderr' = Append(stderr, "Warning: Could not parse re-analysis response.")
                  /\ main_pc' = "render"
                  /\ UNCHANGED <<high_confidence_data, exit_code>>
             ELSE LET merged == MergeFeedback(high_confidence_data, extracted.val)
                  IN IF merged.kind = "raise"
                     THEN /\ Exit(1, "Error: exception")
                          /\ UNCHANGED high_confidence_data
                     ELSE /\ high_confidence_data' = merged.val
                          /\ stderr' = Append(stderr, "Risk assessment recalculated")
                          /\ main_pc' = "render"
                          /\ UNCHANGED exit_code
    /\ UNCHANGED <<ci, llm_calls, response, main_data, low_confidence_data,
                   high_before, low_before, filtered_whatif>>
    /\ UNCHANGED <<option_vars, output_vars>>
    /\ UNCHANGED <<gate_vars, extract_vars, resp_vars, provider_vars>>

\* lines 479-486: the high view is rendered as a table, as JSON or as
\* markdown.  The functions of render.py take neither low_confidence_data nor
\* no_block, so as the files stand the call raises TypeError; a renderer that
\* takes them returns or raises.  An exception is reported by the handler of
\* lines 531-533.
RenderOutput ==
    /\ main_pc = "render"
    /\ rendered' = high_confidence_data
    /\ \E raises \in BOOLEAN :
          IF raises
          THEN Exit(1, "Error: exception")
          ELSE /\ main_pc' = "gate"
               /\ UNCHANGED <<stderr, exit_code>>
    /\ UNCHANGED <<ci, llm_calls, in_flight, response, main_data, high_confidence_data,
                   low_confidence_data, high_before, low_before, filtered_response,
                   filtered_whatif>>
    /\ UNCHANGED <<option_vars, response_text, truncated>>
    /\ UNCHANGED <<gate_vars, extract_vars, resp_vars, provider_vars>>

\* lines 176-194: click hands main the choice as it is declared, in lower case
CommandLineThresholds == {"low", "medium", "high"}

\* a gate that is handed the response as it was before partitioning
GatedViewUnpartitioned == main_data

\* line 493: the first argument of evaluate_risk_buckets
GatedView == high_confidence_data

\* lines 501-518: the messages written when the gate reports unsafe
GateMessages(failed_buckets, block) ==
    (IF failed_buckets # <<>>
     THEN <<IF block THEN "Deployment blocked: Failed risk buckets"
            ELSE "Warning: Failed risk buckets">>
     ELSE <<>>)
    \o (IF block THEN <<>> ELSE <<"CI mode: Reporting findings only">>)

\* lines 489-518: in CI mode the gate is evaluated with the thresholds of the
\* command line, the comment is posted when asked for, and the process exits.
\* Rendering the comment (line 498) raises like the rendering of line 485.
EvaluateGate ==
    /\ main_pc = "gate"
    /\ ci
    /\ \E drift_th \in CommandLineThresholds, intent_th \in CommandLineThresholds,
          operations_th \in CommandLineThresholds,
          comment \in {"none", "posted", "raises"} :
          LET result == evaluate_risk_buckets(GatedView, drift_th, intent_th, operations_th)
          IN /\ data' = GatedView
             /\ drift_threshold' = drift_th
             /\ intent_threshold' = intent_th
             /\ operations_threshold' = operations_th
             /\ gate_result' = result
             /\ gate_pc' = "evaluated"
             /\ IF result.kind = "raise" \/ comment = "raises"
                THEN Exit(1, "Error: exception")
                ELSE IF result.val.safe
                THEN /\ exit_code' = 0
                     /\ main_pc' = "exited"
                     /\ UNCHANGED stderr
                ELSE /\ stderr' = stderr \o GateMessages(result.val.failed, ~no_block)
                     /\ exit_code' = (IF no_block THEN 0 ELSE 1)
                     /\ main_pc' = "exited"
    /\ UNCHANGED <<gate_prev, raised_bucket>>
    /\ UNCHANGED <<ci, llm_calls, in_flight, response, main_data, high_confidence_data,
                   low_confidence_data, high_before, low_before, filtered_response,
                   filtered_whatif>>
    /\ UNCHANGED <<option_vars, output_vars>>
    /\ UNCHANGED <<extract_vars, resp_vars, provider_vars>>

\* line 521: outside CI mode the process exits with status 0
ExitStandard ==
    /\ main_pc = "gate"
    /\ ~ci
    /\ exit_code' = 0
    /\ main_pc' = "exited"
    /\ UNCHANGED <<ci, llm_calls, in_flight, response, main_data, high_confidence_data,
                   low_confidence_data, high_before, low_before, filtered_response,
                   filtered_whatif, stderr>>
    /\ UNCHANGED <<option_vars, output_vars>>
    /\ UNCHANGED <<gate_vars, extract_vars, resp_vars, provider_vars>>

MainNext ==
    \/ CallModel
    \/ ModelFails
    \/ ModelReturns
    \/ NormalizeData
    \/ PartitionData
    \/ StartFeedback
    \/ SkipFeedback
    \/ FeedbackReturns
    \/ RenderOutput
    \/ EvaluateGate
    \/ ExitStandard

SpecMain == MainInit /\ [][MainNext]_vars

-----------------------------------------------------------------------------
(* bicep_whatif_advisor/providers: complete() of AnthropicProvider,         *)
(* AzureOpenAIProvider and OllamaProvider.  An exception is the set of      *)
(* classes it is an instance of; a try statement runs the first except      *)
(* clause whose class is among them.  The classes are those of the          *)
(* anthropic, openai and requests packages.                                 *)

ProviderNames == {"anthropic", "azure-openai", "ollama"}

\* for attempt in range(2)
Attempts == 2

\* the except clauses of the loop body, in the order of the source; the
\* handler of a "retry" clause retries on the first attempt and exits after it
ClausesRetryFirst(name) ==
    IF name = "ollama"
    THEN <<[class |-> "ConnectionError", handler |-> "retry"],
           [class |-> "Timeout", handler |-> "exit"],
           [class |-> "HTTPError", handler |-> "exit"],
           [class |-> "Exception", handler |-> "exit"]>>
    ELSE <<[class |-> "APIError", handler |-> "retry"],
           [class |-> "RateLimitError", handler |-> "exit"],
           [class |-> "Exception", handler |-> "exit"]>>

Clauses(name) ==
    IF name = "ollama"
    THEN <<[class |-> "ConnectionError", handler |-> "retry"],
           [class |-> "Timeout", handler |-> "exit"],
           [class |-> "HTTPError", handler |-> "exit"],
           [class |-> "Exception", handler |-> "exit"]>>
    ELSE <<[class |-> "RateLimitError", handler |-> "exit"],
           [class |-> "APIError", handler |-> "retry"],
           [class |-> "Exception", handler |-> "exit"]>>

\* the handler of the first clause that matches the exception
Handler(name, exc) ==
    LET clauses == Clauses(name)
        first == CHOOSE n \in 1..Len(clauses) :
                    /\ clauses[n].class \in exc
                    /\ \A m \in 1..(n - 1) : clauses[m].class \notin exc
    IN clauses[first].handler

\* what an API call can raise: errors of the SDK (rate limit, connection,
\* timeout, HTTP status 500 and 401) or of requests (connection, connect and
\* read timeout, HTTP status), and errors of the lines that read the reply
\* (IndexError on an empty content list, a reply that is not JSON or not an
\* object)
Exceptions(name) ==
    IF name = "ollama"
    THEN {{"ConnectionError", "RequestException", "Exception"},
          {"ConnectTimeout", "ConnectionError", "Timeout", "RequestException", "Exception"},
          {"ReadTimeout", "Timeout", "RequestException", "Exception"},
          {"HTTPError", "RequestException", "Exception"},
          {"JSONDecodeError", "Exception"},
          {"AttributeError", "Exception"}}
    ELSE {{"RateLimitError", "APIStatusError", "APIError", "Exception"},
          {"APIConnectionError", "APIError", "Exception"},
          {"APITimeoutError", "APIConnectionError", "APIError", "Exception"},
          {"InternalServerError", "APIStatusError", "APIError", "Exception"},
          {"AuthenticationError", "APIStatusError", "APIError", "Exception"},
          {"IndexError", "Exception"}}

\* the texts a model replies with
ReplyTexts == {"", "{}", "not json", "1"}

ProviderInit ==
    /\ provider \in ProviderNames
    /\ prov_pc = "import"
    /\ attempt = 0
    /\ api_attempts = 0
    /\ raised = <<>>
    /\ prov_text = NoResult
    /\ prov_status = -1
    /\ GateIdle
    /\ ExtractIdle
    /\ ResponseIdle
    /\ MainIdle

\* sys.exit(1) in complete()
ProviderExit ==
    /\ prov_status' = 1
    /\ prov_pc' = "exited"

\* the import of the SDK: ImportError ends the process
ImportPackage ==
    /\ prov_pc = "import"
    /\ \E installed \in BOOLEAN :
          IF installed
          THEN /\ prov_pc' = "attempt"
               /\ UNCHANGED prov_status
          ELSE ProviderExit
    /\ UNCHANGED <<provider, attempt, api_attempts, raised, prov_text>>
    /\ UNCHANGED <<gate_vars, extract_vars, resp_vars, main_vars>>

\* the API call returns and its text is returned
AttemptReturns ==
    /\ prov_pc = "attempt"
    /\ attempt < Attempts
    /\ api_attempts' = api_attempts + 1
    /\ \E reply \in ReplyTexts : prov_text' = Return(reply)
    /\ prov_pc' = "returned"
    /\ UNCHANGED <<provider, attempt, raised, prov_status>>
    /\ UNCHANGED <<gate_vars, extract_vars, resp_vars, main_vars>>

\* the API call, or the reading of its reply, raises
AttemptRaises ==
    /\ prov_pc = "attempt"
    /\ attempt < Attempts
    /\ api_attempts' = api_attempts + 1
    /\ \E exc \in Exceptions(provider) :
          /\ raised' = Append(raised, exc)
          /\ IF Handler(provider, exc) = "retry" /\ attempt = 0
             THEN /\ prov_pc' = "sleep"
                  /\ UNCHANGED prov_status
             ELSE ProviderExit
    /\ UNCHANGED <<provider, attempt, prov_text>>
    /\ UNCHANGED <<gate_vars, extract_vars, resp_vars, main_vars>>

\* time.sleep(1); continue: the next iteration, or the exit after the loop
Sleep ==
    /\ prov_pc = "sleep"
    /\ attempt' = attempt + 1
    /\ IF attempt + 1 < Attempts
       THEN /\ prov_pc' = "attempt"
            /\ UNCHANGED prov_status
       ELSE ProviderExit
    /\ UNCHANGED <<provider, api_attempts, raised, prov_text>>
    /\ UNCHANGED <<gate_vars, extract_vars, resp_vars, main_vars>>

ProviderNext ==
    \/ ImportPackage
    \/ AttemptReturns
    \/ AttemptRaises
    \/ Sleep

SpecProvider == ProviderInit /\ [][ProviderNext]_vars

\* complete() is sequential code: the import, an API call (requests.post has
\* timeout=120, the SDK clients time out by default) and time.sleep(1) all
\* return or raise, so a step that is enabled is taken
SpecProviderLive == SpecProvider /\ WF_vars(ProviderNext)

Init == GateInit \/ ExtractInit \/ ResponseInit \/ MainInit \/ ProviderInit

Next == GateNext \/ ExtractNext \/ ResponseNext \/ MainNext \/ ProviderNext

Spec == Init /\ [][Next]_vars

-----------------------------------------------------------------------------
(* Properties of evaluate_risk_buckets, checked under SpecGate *)

Range(seq) == {seq[n] : n \in 1..Len(seq)}

\* the ordinal scale low < medium < high of the specification
Rank(level) ==
    CASE level = "low" -> 0
      [] level = "medium" -> 1
      [] level = "high" -> 2

RecognizedLevels == {"low", "medium", "high"}

GateReturned == gate_pc = "evaluated" /\ gate_result.kind = "return"

TheAssessment == data.v.risk_assessment

Threshold(b) ==
    CASE b = "drift" -> drift_threshold
      [] b = "intent" -> intent_threshold
      [] b = "operations" -> operations_threshold

\* the response carries a non-empty risk_assessment object
HasAssessment == TheAssessment.t = "dict" /\ Truthy(TheAssessment)

\* bucket b of the response is an object whose risk_level is a string
HasLevelString(b) ==
    /\ HasAssessment
    /\ TheAssessment.v[b].t = "dict"
    /\ TheAssessment.v[b].v.risk_level.t = "str"

LevelString(b) == TheAssessment.v[b].v.risk_level.v

\* the level at which bucket b is gated: low unless a recognized level is given
EffectiveRank(b) ==
    IF HasLevelString(b) /\ Lower(LevelString(b)) \in RecognizedLevels
    THEN Rank(Lower(LevelString(b)))
    ELSE 0

ScenarioDriftHigh ==
    /\ data = Response(Assessment(Bucket(JStr("high")), Absent, Bucket(JStr("low")), Absent))
    /\ drift_threshold = "high"
    /\ intent_threshold = "high"
    /\ operations_threshold = "high"

\* C1: a bucket with a recognized level L fails iff rank(L) >= rank(T) for its
\* threshold T, both compared case-insensitively (so a bucket exactly at its
\* threshold fails); {drift: high, operations: low} under thresholds
\* (high, high, high) gives safe = false and failed buckets exactly <<drift>>.
C1_FailsIffAtOrAboveThreshold ==
    GateReturned =>
        /\ \A b \in Range(BucketNames) :
              (HasLevelString(b) /\ Lower(LevelString(b)) \in RecognizedLevels) =>
                  ((b \in Range(gate_result.val.failed))
                      <=> (Rank(Lower(LevelString(b))) >= Rank(Lower(Threshold(b)))))
        /\ ScenarioDriftHigh =>
              /\ gate_result.val.safe = FALSE
              /\ gate_result.val.failed = <<"drift">>

C1_Witness ==
    /\ GateReturned
    /\ HasLevelString("drift")
    /\ LevelString("drift") = "HIGH"
    /\ drift_threshold = "high"
    /\ "drift" \in Range(gate_result.val.failed)

PositionOf(b) == CHOOSE n \in 1..Len(BucketNames) : BucketNames[n] = b

\* bucket b is compared against its threshold by the call
BucketEvaluated(b) ==
    /\ HasAssessment
    /\ b = "intent" => (HasKey(TheAssessment, "intent") /\ TheAssessment.v.intent # JNull)

\* C2: safe == (failedBuckets is empty), and failedBuckets is a duplicate-free
\* subsequence of <<drift, intent, operations>> that holds only buckets that
\* were evaluated.
C2_SafeIffNoFailedBucket ==
    GateReturned =>
        LET failed == gate_result.val.failed
        IN /\ gate_result.val.safe = (failed = <<>>)
           /\ \A n \in 1..Len(failed) : failed[n] \in Range(BucketNames)
           /\ \A m, n \in 1..Len(failed) :
                 m < n => PositionOf(failed[m]) < PositionOf(failed[n])
           /\ \A n \in 1..Len(failed) : BucketEvaluated(failed[n])

C2_Witness ==
    /\ GateReturned
    /\ gate_result.val.failed = <<"drift", "intent", "operations">>
    /\ gate_result.val.safe = FALSE

\* C3: with no risk_assessment field the gate returns safe = true, no failed
\* bucket and an assessment of exactly drift and operations, each low with empty
\* concerns and the reasoning "No risk assessment provided"; it does not raise.
C3_MissingAssessmentFailsOpen ==
    (gate_pc = "evaluated" /\ TheAssessment = Absent) =>
        /\ gate_result.kind = "return"
        /\ gate_result.val.safe = TRUE
        /\ gate_result.val.failed = <<>>
        /\ gate_result.val.assessment.t = "dict"
        /\ \A b \in {"drift", "operations"} :
              gate_result.val.assessment.v[b] =
                  JDict([risk_level |-> JStr("low"), concerns |-> JList(<<>>),
                         reasoning |-> JStr("No risk assessment provided")])
        /\ gate_result.val.assessment.v.intent = Absent
        /\ gate_result.val.assessment.v.other = Absent

C3_Witness ==
    /\ gate_pc = "evaluated"
    /\ TheAssessment = Absent
    /\ drift_threshold = "low"
    /\ operations_threshold = "low"
    /\ gate_result.kind = "return"

\* C4: when risk_assessment holds no intent bucket, "intent" is never a failed
\* bucket, whatever intent_threshold is, and the returned assessment holds no
\* intent bucket either.
C4_AbsentIntentNeverGated ==
    (GateReturned /\ (TheAssessment.t # "dict" \/ ~HasKey(TheAssessment, "intent"))) =>
        /\ "intent" \notin Range(gate_result.val.failed)
        /\ gate_result.val.assessment.v.intent = Absent

C4_Witness ==
    /\ GateReturned
    /\ HasAssessment
    /\ ~HasKey(TheAssessment, "intent")
    /\ intent_threshold = "low"
    /\ "drift" \in Range(gate_result.val.failed)

\* the response with the risk_level of bucket b replaced by "low"
WithLevelLow(b) ==
    Response([TheAssessment EXCEPT !.v[b].v.risk_level = JStr("low")])

\* C5: a risk_level string that is none of low, medium, high (in any case) is
\* gated exactly as "low": the bucket fails iff its threshold is low, and the
\* failed buckets are those of the same response with that level set to "low".
C5_UnrecognizedLevelIsLow ==
    GateReturned =>
        \A b \in Range(BucketNames) :
            (HasLevelString(b) /\ Lower(LevelString(b)) \notin RecognizedLevels) =>
                /\ (b \in Range(gate_result.val.failed)) <=> (Lower(Threshold(b)) = "low")
                /\ LET low == evaluate_risk_buckets(WithLevelLow(b), drift_threshold,
                                                    intent_threshold, operations_threshold)
                   IN /\ low.kind = "return"
                      /\ low.val.failed = gate_result.val.failed
                      /\ low.val.safe = gate_result.val.safe

C5_Witness ==
    /\ GateReturned
    /\ HasLevelString("operations")
    /\ LevelString("operations") = "critical"
    /\ operations_threshold = "medium"
    /\ "operations" \notin Range(gate_result.val.failed)

\* C6: with the assessed levels fixed, raising one bucket's threshold never adds
\* a failed bucket (the failed set shrinks or stays), and the bucket whose
\* threshold was raised still fails only if its level is at or above the new
\* threshold.
C6_RaisingThresholdIsMonotonic ==
    (GateReturned /\ gate_prev.kind = "return") =>
        /\ Range(gate_result.val.failed) \subseteq Range(gate_prev.val.failed)
        /\ raised_bucket \in Range(gate_result.val.failed) =>
              EffectiveRank(raised_bucket) >= Rank(Lower(Threshold(raised_bucket)))
        /\ \A b \in Range(BucketNames) \ {raised_bucket} :
              (b \in Range(gate_result.val.failed)) <=> (b \in Range(gate_prev.val.failed))

C6_Witness ==
    /\ GateReturned
    /\ gate_prev.kind = "return"
    /\ raised_bucket = "drift"
    /\ "drift" \in Range(gate_prev.val.failed)
    /\ "drift" \notin Range(gate_result.val.failed)
    /\ "operations" \in Range(gate_result.val.failed)

-----------------------------------------------------------------------------
(* Properties of extract_json, checked under SpecExtract *)

\* the value a document denotes, read off the tree (not parsed from its text)
RECURSIVE Denote(_)
Denote(doc) ==
    CASE doc.t = "dstr" -> PStr(doc.v)
      [] doc.t = "dnum" -> PNum(doc.v)
      [] doc.t = "dobj" -> PObj({<<doc.v[n][1], Denote(doc.v[n][2])>> : n \in 1..Len(doc.v)})

\* some string of the document (a key or a value) holds both a quote and a "}"
RECURSIVE HasQuoteAndBrace(_)
HasQuoteAndBrace(doc) ==
    CASE doc.t = "dstr" -> {"\"", "}"} \subseteq Range(doc.v)
      [] doc.t = "dnum" -> FALSE
      [] doc.t = "dobj" ->
            \E n \in 1..Len(doc.v) :
                \/ {"\"", "}"} \subseteq Range(doc.v[n][1])
                \/ HasQuoteAndBrace(doc.v[n][2])

ExtractFinished == pc \in {"done", "compared"}

Framed == origin.kind = "framed"

\* C7: a text that is a valid JSON object, with nothing before or after it, is
\* returned as exactly that object, by the brace-scan variant and by the regex
\* variant of extract_json alike.
C7_WholeObjectReturned ==
    /\ (Framed /\ origin.prefix = <<>> /\ origin.suffix = <<>>) =>
          /\ ExtractFinished => outcome = Return(Denote(origin.doc))
          /\ pc = "compared" => legacy = Return(Denote(origin.doc))
    /\ (~Framed /\ json_loads(text).ok /\ json_loads(text).val.t = "object") =>
          /\ ExtractFinished => outcome = Return(json_loads(text).val)
          /\ pc = "compared" => legacy = Return(json_loads(text).val)

C7_Witness ==
    /\ pc = "compared"
    /\ Framed
    /\ origin.prefix = <<>>
    /\ origin.suffix = <<>>
    /\ origin.doc = DObj(<< <<<<"a">>, DObj(<< <<<<"a">>, DStr(<<"{", "\"", "}">>)>> >>)>> >>)
    /\ outcome = Return(Denote(origin.doc))
    /\ legacy = outcome

\* C8 as stated: for every prefix and suffix, an object whose body holds a
\* string with an escaped quote and a "}" is returned as that object.  It is
\* read here on the texts that reach the brace scan (the texts that are valid
\* JSON as a whole never do, see C9), which the statement covers as well.
C8_AnyPrefixReturnsObject ==
    (Framed /\ HasQuoteAndBrace(origin.doc) /\ ~json_loads(text).ok /\ ExtractFinished) =>
        outcome = Return(Denote(origin.doc))

\* C8, amended: when the prefix holds no "{", the brace scan's one candidate is
\* the object's own text, brace inside the string included, and the object is
\* returned -- unless the whole text is valid JSON as it stands, which step (a)
\* returns as parsed without any scan.
C8_BraceFreePrefixReturnsObject ==
    (Framed /\ HasQuoteAndBrace(origin.doc) /\ "{" \notin Range(origin.prefix)
        /\ ExtractFinished) =>
        IF json_loads(text).ok
        THEN /\ outcome = Return(json_loads(text).val)
             /\ candidates = <<>>
        ELSE /\ outcome = Return(Denote(origin.doc))
             /\ candidates = <<Encode(origin.doc)>>

C8_Witness ==
    /\ pc = "done"
    /\ Framed
    /\ HasQuoteAndBrace(origin.doc)
    /\ origin.prefix = <<"\"">>
    /\ origin.suffix = <<"}">>
    /\ candidates = <<Encode(origin.doc)>>
    /\ outcome = Return(Denote(origin.doc))

\* C9: what step (a) returns (a return with no scan candidate) is a JSON
\* object; a verbatim parse that is an array, a string or a number is not
\* returned from step (a).
C9_VerbatimReturnsOnlyObjects ==
    (ExtractFinished /\ outcome.kind = "return" /\ candidates = <<>>) =>
        outcome.val.t = "object"

\* the "}" at which the brace depth first returns to zero when the text is
\* walked from position n under the rules of the specification; 0 if none
RECURSIVE FirstClose(_, _, _, _, _)
FirstClose(s, n, depth, instr, esc) ==
    IF n > Len(s) THEN 0
    ELSE IF esc THEN FirstClose(s, n + 1, depth, instr, FALSE)
    ELSE IF s[n] = "\\" THEN FirstClose(s, n + 1, depth, instr, TRUE)
    ELSE IF s[n] = "\"" THEN FirstClose(s, n + 1, depth, ~instr, FALSE)
    ELSE IF instr THEN FirstClose(s, n + 1, depth, instr, FALSE)
    ELSE IF s[n] = "{" THEN FirstClose(s, n + 1, depth + 1, instr, FALSE)
    ELSE IF s[n] = "}"
         THEN IF depth = 1 THEN n ELSE FirstClose(s, n + 1, depth - 1, instr, FALSE)
    ELSE FirstClose(s, n + 1, depth, instr, FALSE)

FirstBrace == CHOOSE n \in 1..Len(text) : text[n] = "{" /\ \A m \in 1..(n - 1) : text[m] # "{"

\* C10: the brace scan parses at most one candidate, the text from the first
\* "{" through the "}" at which the depth first returns to zero, and the result
\* of extract_json is the result of parsing that candidate: if it is not valid
\* JSON the extraction fails, whatever follows it in the text.
C10_OnlyFirstCandidateTried ==
    /\ ~ExtractFinished => candidates = <<>>
    /\ ExtractFinished =>
          /\ Len(candidates) <= 1
          /\ candidates # <<>> =>
                /\ "{" \in Range(text)
                /\ FirstClose(text, FirstBrace, 0, FALSE, FALSE) # 0
                /\ candidates[1] =
                      SubSeq(text, FirstBrace, FirstClose(text, FirstBrace, 0, FALSE, FALSE))
                /\ outcome = IF json_loads(candidates[1]).ok
                             THEN Return(json_loads(candidates[1]).val)
                             ELSE Raise("ValueError")
          /\ (candidates = <<>> /\ ~json_loads(text).ok) => outcome = Raise("ValueError")

C10_Witness ==
    /\ pc = "done"
    /\ text = <<"{", "a", "}", "{", "}">>
    /\ candidates = << <<"{", "a", "}">> >>
    /\ json_loads(<<"{", "}">>).ok
    /\ outcome = Raise("ValueError")

\* the brace scan of the text never sees the depth return to zero
ScanRunsOffEnd ==
    /\ "{" \in Range(text)
    /\ FirstClose(text, FirstBrace, 0, FALSE, FALSE) = 0

-----------------------------------------------------------------------------
(* Properties of filter_by_confidence and of the normalization step,        *)
(* checked under SpecResponse                                                *)

Partitioned == resp_pc = "partitioned" /\ partition.kind = "return"

High == partition.val.high

Low == partition.val.low

\* the resources of the partitioned response, in the order the loop visits them
InputResources ==
    LET resources == DictGet(partition_input, "resources", JList(<<>>))
    IN IF resources.t = "list" THEN resources.v ELSE CharsOf(resources.v)

\* the spellings that case-fold to "low" or to "noise"
LowSpellings == {"low", "Low", "LOW", "noise", "Noise", "NOISE"}

\* C12: a resource goes to the low-confidence output iff its confidence_level,
\* case-folded, is "low" or "noise"; a resource with any other confidence_level
\* string ("medium", "high", an unrecognized one) or with no confidence_level
\* field goes to the high-confidence output.
C12_LowOrNoiseRoutedLow ==
    Partitioned =>
        \A n \in 1..Len(InputResources) :
            LET resource == InputResources[n]
                level == resource.v.confidence_level
            IN IF level.t = "str" /\ level.v \in LowSpellings
               THEN /\ resource \in Range(Low.v.resources.v)
                    /\ resource \notin Range(High.v.resources.v)
               ELSE /\ level.t \in {"str", "absent"}
                    /\ resource \in Range(High.v.resources.v)
                    /\ resource \notin Range(Low.v.resources.v)

C12_Witness ==
    /\ Partitioned
    /\ InputResources = <<FullResource(JStr("Noise")), BareResource(Absent)>>
    /\ Low.v.resources = JList(<<FullResource(JStr("Noise"))>>)
    /\ High.v.resources = JList(<<BareResource(Absent)>>)

\* the elements of seq at the positions that side maps to tag, in order
RECURSIVE Pick(_, _, _, _)
Pick(seq, side, tag, n) ==
    IF n > Len(seq) THEN <<>>
    ELSE (IF side[n] = tag THEN <<seq[n]>> ELSE <<>>) \o Pick(seq, side, tag, n + 1)

\* C13: the two outputs split the positions of the input: there is an
\* assignment of every position to exactly one side such that high.resources
\* is the input at the high positions and low.resources the input at the low
\* positions, both in input order; nothing is added, dropped or duplicated.
C13_StableSplit ==
    Partitioned =>
        /\ Len(High.v.resources.v) + Len(Low.v.resources.v) = Len(InputResources)
        /\ \E side \in [1..Len(InputResources) -> {"high", "low"}] :
              /\ High.v.resources = JList(Pick(InputResources, side, "high", 1))
              /\ Low.v.resources = JList(Pick(InputResources, side, "low", 1))

C13_Witness ==
    /\ Partitioned
    /\ InputResources = <<FullResource(JStr("noise")), FullResource(JStr("low"))>>
    /\ Low.v.resources = JList(InputResources)
    /\ High.v.resources = JList(<<>>)

\* C14: high.overall_summary is the source's overall_summary (the empty string
\* when the source has none), high has risk_assessment and verdict exactly when
\* the source has them, with the source's values; low.overall_summary is the
\* empty string and low has neither risk_assessment nor verdict.
C14_OnlyHighCarriesCiFields ==
    Partitioned =>
        /\ High.v.overall_summary =
              (IF HasKey(partition_input, "overall_summary")
               THEN partition_input.v.overall_summary ELSE JStr(""))
        /\ High.v.risk_assessment = partition_input.v.risk_assessment
        /\ High.v.verdict = partition_input.v.verdict
        /\ Low.v.overall_summary = JStr("")
        /\ Low.v.risk_assessment = Absent
        /\ Low.v.verdict = Absent

C14_Witness ==
    /\ Partitioned
    /\ partition_input.v.overall_summary = JStr("two changes")
    /\ partition_input.v.risk_assessment = AssessmentDriftHigh
    /\ partition_input.v.verdict = Verdict(FALSE)
    /\ High.v.verdict = Verdict(FALSE)
    /\ High.v.risk_assessment = AssessmentDriftHigh
    /\ Low.v.resources = JList(<<FullResource(JStr("low"))>>)
    /\ Low.v.verdict = Absent

Normalized == resp_pc \in {"normalized", "renormalized"} /\ normalized.kind = "return"

\* the resources of a response as a sequence (none when it is not a list)
ResourcesOf(d) == IF d.v.resources.t = "list" THEN d.v.resources.v ELSE <<>>

OtherResourceFields == {"resource_name", "resource_type", "action", "summary"}

\* C15: after the normalization step the response has resources (the empty
\* list if it was missing) and overall_summary ("No summary provided." if it was
\* missing), and every resource object has confidence_level ("medium" if it was
\* missing) and confidence_reason ("No confidence assessment provided" if it
\* was missing); every field that was present keeps its value, and no other
\* field appears or changes.
C15_DefaultsOnlyWhereMissing ==
    Normalized =>
        LET out == normalized.val
        IN /\ raw.t = "dict" /\ out.t = "dict"
           /\ HasKey(out, "resources")
           /\ ~HasKey(raw, "resources") => out.v.resources = JList(<<>>)
           /\ HasKey(raw, "resources") =>
                 /\ out.v.resources.t = raw.v.resources.t
                 /\ raw.v.resources.t # "list" => out.v.resources = raw.v.resources
           /\ out.v.overall_summary =
                 (IF HasKey(raw, "overall_summary") THEN raw.v.overall_summary
                  ELSE JStr("No summary provided."))
           /\ out.v.risk_assessment = raw.v.risk_assessment
           /\ out.v.verdict = raw.v.verdict
           /\ Len(ResourcesOf(out)) = (IF HasKey(raw, "resources") THEN Len(ResourcesOf(raw)) ELSE 0)
           /\ \A n \in 1..Len(ResourcesOf(out)) :
                 LET before == ResourcesOf(raw)[n]
                     after == ResourcesOf(out)[n]
                 IN IF before.t # "dict" THEN after = before
                    ELSE /\ after.t = "dict"
                         /\ after.v.confidence_level =
                               (IF HasKey(before, "confidence_level")
                                THEN before.v.confidence_level ELSE JStr("medium"))
                         /\ after.v.confidence_reason =
                               (IF HasKey(before, "confidence_reason")
                                THEN before.v.confidence_reason
                                ELSE JStr("No confidence assessment provided"))
                         /\ \A f \in OtherResourceFields : after.v[f] = before.v[f]

C15_Witness ==
    /\ resp_pc = "normalized"
    /\ raw = ResponseDict(JList(<<BareResource(Absent), FullResource(JStr("high"))>>),
                          Absent, Absent, Absent)
    /\ normalized =
          Return(ResponseDict(
              JList(<<Resource(Absent, Absent, Absent, Absent, JStr("medium"),
                               JStr("No confidence assessment provided")),
                      FullResource(JStr("high"))>>),
              JStr("No summary provided."), Absent, Absent))

RequiredResourceFields ==
    {"resource_name", "resource_type", "action", "summary",
     "confidence_level", "confidence_reason"}

\* every entry of the resources array is an object
AllEntriesObjects(d) ==
    /\ d.t = "dict"
    /\ d.v.resources.t = "list"
    /\ \A n \in 1..Len(d.v.resources.v) : d.v.resources.v[n].t = "dict"

\* C16: once the response of a model that returned an array of resource
\* objects is normalized, every resource has a non-null resource_name,
\* resource_type, action, summary, confidence_level and confidence_reason.
C16_AllSixFieldsPresent ==
    (Normalized /\ AllEntriesObjects(raw)) =>
        \A n \in 1..Len(ResourcesOf(normalized.val)) :
            \A f \in RequiredResourceFields :
                /\ HasKey(ResourcesOf(normalized.val)[n], f)
                /\ ResourcesOf(normalized.val)[n].v[f] # JNull

\* C17: the normalization step completes and yields a response for every JSON
\* object it is handed, whatever its resources value and the entries of that
\* value are; it never raises.
C17_NormalizationNeverRaises ==
    (resp_pc \in {"normalized", "renormalized"} /\ raw.t = "dict") =>
        normalized.kind = "return"

\* C18: the normalization step applied to a normalized response returns that
\* response, equal in every field of the response and of every resource.
C18_NormalizationIdempotent ==
    resp_pc = "renormalized" =>
        /\ renormalized.kind = "return"
        /\ renormalized.val = normalized.val

C18_Witness ==
    /\ resp_pc = "renormalized"
    /\ raw = ResponseDict(JList(<<BareResource(Absent)>>), Absent, Absent, Absent)
    /\ normalized.val # raw
    /\ renormalized = normalized

-----------------------------------------------------------------------------
(* Properties of main, checked under SpecMain *)

\* filter_by_confidence has returned the two views
PartitionDone == high_before # JNull

RunEnded == main_pc \in {"render", "gate", "exited"}

\* the feedback round ran to its end: the second reply was taken and merged or set aside
FeedbackDone == llm_calls = 2 /\ (main_pc \in {"render", "gate"} \/ rendered # JNull)

\* C19: the model is called again iff CI mode is on and low.resources is not
\* empty after partitioning; the second call is made only after the first
\* reply was extracted, normalized and partitioned; a run makes at most two
\* calls, never two at a time, and exactly one in non-CI mode or with an
\* empty low set.
C19_ReinvokedIffCiAndLowNonEmpty ==
    /\ in_flight <= 1
    /\ llm_calls <= 2
    /\ llm_calls = 2 => PartitionDone
    /\ (RunEnded /\ PartitionDone) =>
          ((llm_calls = 2) <=> (ci /\ low_before.v.resources # JList(<<>>)))
    /\ (RunEnded /\ PartitionDone /\ (~ci \/ low_before.v.resources = JList(<<>>))) =>
          llm_calls = 1

\* C20: from partitioning on, high.resources, high.overall_summary and the
\* low view keep the values filter_by_confidence gave them; when the feedback
\* round is over, high.risk_assessment is the second response's risk_assessment
\* if it has one and the value from before otherwise, and likewise for
\* high.verdict; nothing else of the second response is used.
C20_FeedbackChangesOnlyCiFields ==
    PartitionDone =>
        /\ high_confidence_data.v.resources = high_before.v.resources
        /\ high_confidence_data.v.overall_summary = high_before.v.overall_summary
        /\ low_confidence_data = low_before
        /\ ~FeedbackDone => high_confidence_data = high_before
        /\ FeedbackDone =>
              LET second_has(field) ==
                      /\ filtered_response.kind = "return"
                      /\ filtered_response.val.t = "dict"
                      /\ HasKey(filtered_response.val, field)
              IN /\ high_confidence_data.v.risk_assessment =
                       (IF second_has("risk_assessment")
                        THEN filtered_response.val.v.risk_assessment
                        ELSE high_before.v.risk_assessment)
                 /\ high_confidence_data.v.verdict =
                       (IF second_has("verdict")
                        THEN filtered_response.val.v.verdict
                        ELSE high_before.v.verdict)

C20_Witness ==
    /\ FeedbackDone
    /\ filtered_response =
          Return(ResponseDict(JList(<<>>), JStr("one change"), AssessmentAllLow, Absent))
    /\ high_before.v.resources = JList(<<FullResource(JStr("high"))>>)
    /\ high_before.v.risk_assessment = AssessmentDriftHigh
    /\ high_before.v.verdict = Verdict(FALSE)
    /\ low_before.v.resources = JList(<<FullResource(JStr("low"))>>)
    /\ high_confidence_data =
          ResponseDict(JList(<<FullResource(JStr("high"))>>), JStr("two changes"),
                       AssessmentAllLow, Verdict(FALSE))

\* the reply of the re-invocation has been taken
SecondReplyTaken == filtered_response # NoResult

\* the run ended in the feedback round, before anything was rendered
EndedInFeedback == SecondReplyTaken /\ main_pc = "exited" /\ rendered = JNull

ParseWarning == "Warning: Could not parse re-analysis response."

\* C21: when the reply of the re-invocation cannot be extracted as JSON, the
\* high view keeps its risk_assessment and verdict, no resource is discarded,
\* a warning is written and the run goes on to rendering and gating; and no
\* reply of the re-invocation whatsoever ends the run in the feedback round.
C21_FeedbackNeverEndsRun ==
    /\ (SecondReplyTaken /\ filtered_response.kind = "raise") =>
          /\ high_confidence_data = high_before
          /\ low_confidence_data = low_before
          /\ \E n \in 1..Len(stderr) : stderr[n] = ParseWarning
          /\ ~EndedInFeedback
    /\ ~EndedInFeedback

RunExited == main_pc = "exited"

\* extract_json returned a value for the first reply
FirstExtracted == response.kind = "return"

\* evaluate_risk_buckets was called by main and reported unsafe / safe
GateUnsafe == gate_pc = "evaluated" /\ gate_result.kind = "return" /\ ~gate_result.val.safe

GateSafe == gate_pc = "evaluated" /\ gate_result.kind = "return" /\ gate_result.val.safe

\* C22: a run whose first extraction succeeded exits, in CI mode, with status
\* 1 iff the gate reports unsafe and --no-block is not set, and with status 0
\* if the gate reports safe or --no-block is set; outside CI mode the gate is
\* not evaluated and the status is 0.
C22_ExitStatusFollowsGate ==
    (RunExited /\ FirstExtracted) =>
        /\ ci => ((exit_code = 1) <=> (GateUnsafe /\ ~no_block))
        /\ (ci /\ (GateSafe \/ no_block)) => exit_code = 0
        /\ ~ci => (gate_pc # "evaluated" /\ exit_code = 0)

\* extract_json raised ValueError for the first reply
ExtractionFailed == response.kind = "raise"

\* line 371: the status of the exit after a failed first extraction
ExtractionFailureStatus == 1

\* the preview is the reply cut after PreviewLimit characters, followed by
\* three dots when something was cut
PreviewOfReply ==
    /\ Len(truncated) <= PreviewLimit + 3
    /\ \A k \in 1..Len(truncated) :
          IF k <= PreviewLimit THEN k <= Len(response_text) /\ truncated[k] = response_text[k]
          ELSE truncated[k] = "."

\* C23: when the first extraction fails, main writes a preview of at most the
\* first 500 characters of the reply and exits before anything is rendered or
\* gated and before a second call of the model, with a status that no other
\* outcome of the run uses, the blocked deployment in particular.
C23_ExtractionFailureHasOwnStatus ==
    /\ ExtractionFailed =>
          /\ RunExited
          /\ exit_code = ExtractionFailureStatus
          /\ PreviewOfReply
          /\ rendered = JNull
          /\ gate_pc # "evaluated"
          /\ llm_calls = 1
    /\ (RunExited /\ GateUnsafe /\ ~no_block) => exit_code # ExtractionFailureStatus
    /\ (RunExited /\ ~ExtractionFailed) => exit_code # ExtractionFailureStatus

\* main has called evaluate_risk_buckets
GateCalled == gate_pc = "evaluated"

\* the re-invocation returned an object that holds a risk_assessment
Refreshed ==
    /\ filtered_response.kind = "return"
    /\ filtered_response.val.t = "dict"
    /\ HasKey(filtered_response.val, "risk_assessment")

\* the gate's answer for a response that holds nothing but the given assessment
GateAnswer(risk_assessment) ==
    evaluate_risk_buckets(Response(risk_assessment), drift_threshold,
                          intent_threshold, operations_threshold)

ReducedInputBuilt == llm_calls = 2

\* the marker the mapping gives an action, in the spellings of the model
MarkerOf(action) ==
    CASE action \in {JStr("create"), JStr("Create")} -> "+"
      [] action \in {JStr("modify"), JStr("Modify")} -> "~"
      [] action \in {JStr("delete"), JStr("Delete")} -> "-"
      [] action \in {JStr("deploy"), JStr("Deploy")} -> "="
      [] action \in {JStr("nochange"), JStr("NoChange")} -> "*"
      [] action \in {JStr("ignore"), JStr("Ignore")} -> "x"
      [] OTHER -> "~"

\* C25: the reduced input holds one entry for each resource of
\* high.resources, in that order, and none for a low-confidence resource;
\* an entry is the marker of the resource's action (create "+", modify "~",
\* delete "-", deploy "=", nochange "*", ignore "x" in any letter case, "~"
\* for any other or missing action) with the resource's name and summary.
C25_ReducedInputListsHighResources ==
    ReducedInputBuilt =>
        LET high == high_before.v.resources.v
        IN /\ Len(filtered_whatif) = Len(high)
           /\ \A n \in 1..Len(high) :
                 /\ filtered_whatif[n].symbol = MarkerOf(high[n].v.action)
                 /\ filtered_whatif[n].resource_name = high[n].v.resource_name
                 /\ filtered_whatif[n].summary = high[n].v.summary
           /\ \A n \in 1..Len(filtered_whatif) :
                 \A m \in 1..Len(low_before.v.resources.v) :
                    low_before.v.resources.v[m].v.resource_name
                        \notin {high[k].v.resource_name : k \in 1..Len(high)}
                    => filtered_whatif[n].resource_name
                          # low_before.v.resources.v[m].v.resource_name

C25_Witness ==
    /\ ReducedInputBuilt
    /\ main_data.v.resources.v =
          <<ActionResource("vnet", JStr("Delete")), FullResource(JStr("low")),
            ActionResource("nic", Absent)>>
    /\ filtered_whatif =
          <<[symbol |-> "-", resource_name |-> JStr("vnet"), summary |-> JStr("added")],
            [symbol |-> "~", resource_name |-> JStr("nic"), summary |-> JStr("added")]>>

-----------------------------------------------------------------------------
(* Further properties of evaluate_risk_buckets *)

\* C26: with thresholds among low, medium and high the gate returns a result
\* for every response, whatever its buckets and their risk_level are, and
\* never raises; malformed input is gated as low.  Checked under SpecGate.
C26_GateNeverRaises ==
    gate_pc = "evaluated" =>
        /\ gate_result.kind = "return"
        /\ \A b \in Range(BucketNames) :
              (b \in Range(gate_result.val.failed))
                  => EffectiveRank(b) >= Rank(Lower(Threshold(b)))

\* bucket b is compared against its threshold and is at or above it
BucketFails(b) == BucketEvaluated(b) /\ EffectiveRank(b) >= Rank(Lower(Threshold(b)))

\* main blocked the deployment
Blocked ==
    /\ RunExited
    /\ exit_code = 1
    /\ \E n \in 1..Len(stderr) : stderr[n] = "Deployment blocked: Failed risk buckets"

\* the handler of line 531 reported an exception
ExceptionReported == \E n \in 1..Len(stderr) : stderr[n] = "Error: exception"

Reevaluated == GateAnswer(gate_result.val.assessment)

ReevaluationAgrees ==
    /\ Reevaluated.kind = "return"
    /\ Reevaluated.val.safe = gate_result.val.safe
    /\ Reevaluated.val.failed = gate_result.val.failed

\* C29 as claimed: evaluating the returned assessment again with the same
\* thresholds gives the same safe flag and failed buckets, for a synthesized
\* assessment and a threshold low too.  Checked under SpecGate.
C29_ReevaluationAgrees == GateReturned => ReevaluationAgrees

\* C29: for a response with a non-empty risk_assessment, evaluating the
\* returned assessment again gives the same safe flag and failed buckets,
\* whatever the thresholds; for a synthesized assessment the second
\* evaluation agrees iff neither the drift nor the operations threshold is
\* low, and otherwise reports the synthesized low buckets as failed.
C29_ReevaluationAgreesUnlessSynthesized ==
    GateReturned =>
        /\ HasAssessment => ReevaluationAgrees
        /\ ~HasAssessment =>
              /\ gate_result.val.safe
              /\ Reevaluated.kind = "return"
              /\ ReevaluationAgrees
                    <=> (Lower(drift_threshold) # "low" /\ Lower(operations_threshold) # "low")
              /\ Range(Reevaluated.val.failed) =
                    {b \in {"drift", "operations"} : Lower(Threshold(b)) = "low"}

C29_Witness ==
    /\ GateReturned
    /\ TheAssessment = JNull
    /\ drift_threshold = "low"
    /\ operations_threshold = "medium"
    /\ gate_result.val.safe
    /\ Reevaluated.val.failed = <<"drift">>

-----------------------------------------------------------------------------
(* Properties of the providers' complete(), checked under SpecProviderLive *)

\* an error the provider retries: APIError, but not the rate limit that has
\* a clause of its own, for Anthropic and Azure OpenAI; ConnectionError for
\* Ollama
Retryable(name, exc) ==
    IF name = "ollama" THEN "ConnectionError" \in exc
    ELSE "APIError" \in exc /\ "RateLimitError" \notin exc

ProviderDone == prov_pc \in {"returned", "exited"}

AttemptsWithinRetryPolicy ==
    /\ api_attempts <= 2
    /\ Len(raised) <= api_attempts
    /\ api_attempts = 2 => (Len(raised) >= 1 /\ Retryable(provider, raised[1]))
    /\ (Len(raised) >= 1 /\ ~Retryable(provider, raised[1])) =>
          /\ prov_pc = "exited"
          /\ prov_status = 1
          /\ api_attempts = 1
    /\ Len(raised) = 2 => (prov_pc = "exited" /\ prov_status = 1)
    /\ prov_pc = "returned" => (prov_text.kind = "return" /\ prov_status = -1)
    /\ prov_pc = "exited" => (prov_text = NoResult /\ prov_status = 1)
    /\ ~ProviderDone => (prov_text = NoResult /\ prov_status = -1)

-----------------------------------------------------------------------------
(* Properties of the brace scan, checked under SpecExtract *)

\* the depth counter between two iterations of the scan loop
DepthWithinScan ==
    /\ brace_count >= 0
    /\ Len(candidates) <= 1
    /\ pc \in {"idle", "verbatim", "find"} => (brace_count = 0 /\ candidates = <<>>)
    /\ pc = "scan" =>
          /\ i >= start
          /\ i <= Len(text) + 1
          /\ text[start] = "{"
          /\ candidates = <<>>
          /\ i = start => (brace_count = 0 /\ ~in_string /\ ~escape_next)
          /\ i > start => brace_count >= 1
    /\ candidates # <<>> =>
          /\ pc \in {"done", "compared"}
          /\ brace_count = 0
          /\ text[i] = "}"
          /\ candidates = <<SubSeq(text, start, i)>>

\* one iteration of the scan loop
DepthStep ==
    pc = "scan" =>
        /\ brace_count' # brace_count =>
              /\ text[i] \in {"{", "}"}
              /\ ~in_string
              /\ ~escape_next
              /\ brace_count' = brace_count + (IF text[i] = "{" THEN 1 ELSE -1)
        /\ pc' = "scan" => i' = i + 1
        /\ pc' = "done" => i' = i
        /\ candidates' # candidates => (brace_count' = 0 /\ pc' = "done")
        /\ (pc' = "scan" /\ i' > start) => brace_count' >= 1

\* C30: in the brace scan the depth is at least 1 after the first character
\* and never negative, it changes only on a brace read outside a string
\* literal with no escape pending, and the scan stops where the depth first
\* returns to zero: at most one candidate is produced and the index moves
\* forward one character at a time.
C30_DepthTracksBracesOutsideStrings ==
    /\ []DepthWithinScan
    /\ [][DepthStep]_vars

C30_Witness ==
    /\ pc = "done"
    /\ candidates # <<>>
    /\ candidates = <<SubSeq(text, start, i)>>
    /\ start > 1
    /\ i < Len(text)
    /\ \E k \in (start + 1)..(i - 1) : text[k] = "}"
    /\ outcome.kind = "return"

====
